---- MODULE Spec2Model ----
(***************************************************************************)
(* A model of the provisioning engine of tools/raid_manager.py: the disk   *)
(* inventory and protection classifier (DiskManager), the capacity model   *)
(* (RAIDManager._calculate_raid_capacity), the teardown orchestrator       *)
(* (_clean_disks, _perform_disk_cleanup, _wipe_disk_completely), the RAID  *)
(* creation wizard and the cache-device planner.                           *)
(*                                                                         *)
(* Text that the program handles (device names, mount sources, size        *)
(* strings) is kept as strings and taken apart character by character, the *)
(* way the Python code does.  Sizes are byte counts; the hosts of the      *)
(* model only carry sizes below 2 GiB.                                     *)
(***************************************************************************)
EXTENDS Integers, Sequences, FiniteSets, TLC

VARIABLES
    pc,             \* position of the program in the operation being run
    blockdevices,   \* host: what `lsblk -J` reports (data['blockdevices'])
    mounts,         \* host: the mount table, <<source, target>> pairs
    findmnt_fail,   \* host: which findmnt invocations exit non-zero
    exclude_disks,  \* configuration: DEFAULT_CONFIG["exclude_disks"]
    storage,        \* host: what the other probes print (pools, arrays, ...)
    faults,         \* host: how commands end (see run_command)
    system_disks,   \* detect_disks: the set returned by _get_system_disks
    disks,          \* DiskManager.detect_disks(): the inventory (list of Disk)
    available_disks,\* create_raid_wizard: the disks offered for selection
    fs_type,        \* create_raid_wizard: the chosen filesystem
    selected_disks, \* the disks chosen as members (list of Disk)
    raid_type,      \* the chosen topology (a RAIDType value)
    capacity_info,  \* the report of _calculate_raid_capacity
    clean_index,    \* _clean_disks: how many members the loop has handled
    last_disk_info, \* _clean_disks: disk_info, the analysis of the member handled last
    cmds,           \* the commands run by teardown, creation and cache setup
    partition_poll, \* _setup_partitioned_cache: the wait for the two partitions
    confirmed,      \* the cache devices a confirm prompt that names them was answered with yes
    cache_devices   \* _configure_cache_devices: the candidates, by class

vars == <<pc, blockdevices, mounts, findmnt_fail, exclude_disks, storage, faults,
          system_disks, disks, available_disks, fs_type, selected_disks, raid_type,
          capacity_info, clean_index, last_disk_info, partition_poll, confirmed, cmds,
          cache_devices>>

\* The host, and the state of the wizard.
host_vars   == <<blockdevices, mounts, findmnt_fail, exclude_disks, storage, faults>>
fixed_vars  == <<findmnt_fail, exclude_disks, faults>>
wizard_vars == <<available_disks, fs_type, clean_index, last_disk_info, partition_poll,
                 confirmed, cmds, cache_devices>>

-----------------------------------------------------------------------------
(* Python string primitives.                                               *)

Digits == {"0", "1", "2", "3", "4", "5", "6", "7", "8", "9"}

CharAt(s, i) == SubSeq(s, i, i)

\* str.startswith
StartsWith(s, p) == Len(s) >= Len(p) /\ SubSeq(s, 1, Len(p)) = p

\* str.endswith
EndsWith(s, p) == Len(s) >= Len(p) /\ SubSeq(s, Len(s) - Len(p) + 1, Len(s)) = p

\* `sub in s`
Contains(s, sub) ==
    \E i \in 1..(Len(s) - Len(sub) + 1) : SubSeq(s, i, i + Len(sub) - 1) = sub

\* str.rstrip(chars)
RECURSIVE RStrip(_, _)
RStrip(s, chars) ==
    IF s = "" THEN s
    ELSE IF CharAt(s, Len(s)) \in chars
         THEN RStrip(SubSeq(s, 1, Len(s) - 1), chars)
         ELSE s

\* str.lstrip(chars)
RECURSIVE LStrip(_, _)
LStrip(s, chars) ==
    IF s = "" THEN s
    ELSE IF CharAt(s, 1) \in chars
         THEN LStrip(SubSeq(s, 2, Len(s)), chars)
         ELSE s

\* str.strip(): whitespace on both ends
Strip(s) == LStrip(RStrip(s, {" "}), {" "})

\* s.split('/')[-1]: what follows the last slash (all of s when it has none)
RECURSIVE LastSegment(_)
LastSegment(s) ==
    IF s = "" THEN s
    ELSE IF CharAt(s, Len(s)) = "/" THEN ""
         ELSE LastSegment(SubSeq(s, 1, Len(s) - 1)) \o CharAt(s, Len(s))

\* The elements of a list, as a set.
Range(f) == {f[i] : i \in DOMAIN f}

\* Position of the first occurrence of sub in s, 0 when there is none.
Find(s, sub) ==
    LET hits == {i \in 1..(Len(s) - Len(sub) + 1) : SubSeq(s, i, i + Len(sub) - 1) = sub}
    IN  IF hits = {} THEN 0 ELSE CHOOSE i \in hits : \A j \in hits : i <= j

\* s.split(sep)[0]
SplitHead(s, sep) ==
    IF Find(s, sep) = 0 THEN s ELSE SubSeq(s, 1, Find(s, sep) - 1)

\* What follows the first sep in s (s contains sep).
AfterFirst(s, sep) == SubSeq(s, Find(s, sep) + Len(sep), Len(s))

\* s.split(sep)[1], for s that contains sep
SplitSecond(s, sep) == SplitHead(AfterFirst(s, sep), sep)

\* s.split(): the words between runs of blanks
RECURSIVE Words(_)
Words(s) ==
    LET t == LStrip(s, {" "})
    IN  IF t = "" THEN <<>>
        ELSE IF Find(t, " ") = 0 THEN <<t>>
             ELSE <<SubSeq(t, 1, Find(t, " ") - 1)>>
                  \o Words(SubSeq(t, Find(t, " "), Len(t)))

\* " ".join(words), leaving out the empty ones
RECURSIVE JoinWords(_)
JoinWords(words) ==
    IF words = <<>> THEN ""
    ELSE LET rest == JoinWords(Tail(words))
         IN  IF Head(words) = "" THEN rest
             ELSE IF rest = "" THEN Head(words)
                  ELSE Head(words) \o " " \o rest

\* s.replace(ch, "") for a one-character ch
RECURSIVE Remove(_, _)
Remove(s, ch) ==
    IF s = "" THEN s
    ELSE (IF CharAt(s, 1) = ch THEN "" ELSE CharAt(s, 1))
         \o Remove(SubSeq(s, 2, Len(s)), ch)

-----------------------------------------------------------------------------
(* DiskManager._parse_size: a size string of lsblk to bytes.               *)

DigitVal(c) ==
    CASE c = "0" -> 0 [] c = "1" -> 1 [] c = "2" -> 2 [] c = "3" -> 3
      [] c = "4" -> 4 [] c = "5" -> 5 [] c = "6" -> 6 [] c = "7" -> 7
      [] c = "8" -> 8 [] c = "9" -> 9 [] OTHER -> 0

IsDigits(s) == \A i \in 1..Len(s) : CharAt(s, i) \in Digits

RECURSIVE ToInt(_)
ToInt(s) ==
    IF s = "" THEN 0
    ELSE ToInt(SubSeq(s, 1, Len(s) - 1)) * 10 + DigitVal(CharAt(s, Len(s)))

RECURSIVE Pow10(_)
Pow10(n) == IF n = 0 THEN 1 ELSE 10 * Pow10(n - 1)

\* float(s) for an unsigned decimal numeral: the value is num / den;
\* ok = FALSE stands for ValueError.
ParseFloat(s) ==
    LET dots == {i \in 1..Len(s) : CharAt(s, i) = "."}
    IN  IF dots = {}
        THEN [ok |-> s # "" /\ IsDigits(s), num |-> ToInt(s), den |-> 1]
        ELSE IF Cardinality(dots) > 1
        THEN [ok |-> FALSE, num |-> 0, den |-> 1]
        ELSE LET p  == CHOOSE i \in dots : TRUE
                 ip == SubSeq(s, 1, p - 1)
                 fp == SubSeq(s, p + 1, Len(s))
             IN  [ok  |-> IsDigits(ip) /\ IsDigits(fp) /\ (ip # "" \/ fp # ""),
                  num |-> ToInt(ip \o fp),
                  den |-> Pow10(Len(fp))]

\* size_str.replace(',', '.').upper(), one character at a time
NormalizeChar(c) ==
    CASE c = "," -> "." [] c = "b" -> "B" [] c = "k" -> "K" [] c = "m" -> "M"
      [] c = "g" -> "G" [] c = "t" -> "T" [] c = "p" -> "P" [] OTHER -> c

RECURSIVE Normalize(_)
Normalize(s) ==
    IF s = "" THEN s
    ELSE NormalizeChar(CharAt(s, 1)) \o Normalize(SubSeq(s, 2, Len(s)))

\* the multipliers dict, in its order
Suffixes == <<"B", "K", "M", "G", "T", "P">>

RECURSIVE Pow1024(_)
Pow1024(n) == IF n = 0 THEN 1 ELSE 1024 * Pow1024(n - 1)

Multiplier(suffix) ==
    Pow1024((CHOOSE i \in DOMAIN Suffixes : Suffixes[i] = suffix) - 1)

_parse_size(size_str) ==
    IF size_str = "" THEN 0
    ELSE LET s        == Strip(Normalize(size_str))
             matching == {i \in DOMAIN Suffixes : EndsWith(s, Suffixes[i])}
             plain    == ParseFloat(s)
             \* "Sin sufijo, asumir bytes": int(float(size_str)), 0 on ValueError
             bytes    == IF plain.ok THEN plain.num \div plain.den ELSE 0
         IN  IF matching = {} THEN bytes
             ELSE LET suffix == Suffixes[CHOOSE i \in matching : \A j \in matching : i <= j]
                      number == ParseFloat(Strip(SubSeq(s, 1, Len(s) - 1)))
                  IN  IF number.ok
                      THEN (number.num * Multiplier(suffix)) \div number.den
                      ELSE bytes     \* break, then the suffix-less attempt

-----------------------------------------------------------------------------
(* DiskManager._get_system_disks: the protected identifiers.               *)

\* `findmnt -n -o SOURCE <mount_point>`: the source mounted there; the call
\* exits non-zero (CalledProcessError, check=True) when nothing is mounted
\* there or when the host makes this kind of call fail.
Findmnt(mnts, fails, kind, mount_point) ==
    LET hits == {i \in DOMAIN mnts : mnts[i][2] = mount_point}
    IN  IF kind \in fails \/ hits = {}
        THEN [ok |-> FALSE, stdout |-> ""]
        ELSE [ok |-> TRUE, stdout |-> mnts[CHOOSE i \in hits : TRUE][1]]

\* device.split('/')[-1].rstrip('0123456789')
DiskNameOf(device) == RStrip(LastSegment(device), Digits)

\* critical_mounts of _get_system_disks
critical_mounts == <<"/boot", "/usr", "/var", "/etc", "/lib", "/bin", "/sbin", "/home">>

\* the prefixes tested on every line of `findmnt -rn -o SOURCE,TARGET`
critical_prefixes == <<"/", "/boot", "/usr", "/var", "/etc">>

\* "PROTECCION CRITICA": the names added after the probes
StaticSystemDisks == {"mmcblk0", "mmcblk0boot0", "mmcblk0boot1", "mmcblk0rpmb", "nvme0n1"}

\* "Fallback de seguridad": the names added when the probe block raised
FallbackSystemDisks ==
    {"sda", "mmcblk0", "mmcblk0boot0", "mmcblk0boot1", "mmcblk0rpmb", "nvme0n1"}

\* _get_system_disks with a probe failure leaving the set as it is (empty).
GetSystemDisksFailOpen(mnts, fails) ==
    IF ~Findmnt(mnts, fails, "root", "/").ok THEN {}
    ELSE {DiskNameOf(mnts[i][1]) : i \in {j \in DOMAIN mnts : StartsWith(mnts[j][1], "/dev/")}}
         \cup StaticSystemDisks

_get_system_disks(mnts, fails) ==
    LET root == Findmnt(mnts, fails, "root", "/")
    IN  IF ~root.ok
        THEN \* the first findmnt is outside the inner try blocks: `except Exception`
             FallbackSystemDisks
        ELSE LET from_root ==
                     IF Strip(root.stdout) # "" THEN {DiskNameOf(Strip(root.stdout))} ELSE {}
                 from_critical ==
                     {DiskNameOf(Strip(Findmnt(mnts, fails, "critical", critical_mounts[k]).stdout)) :
                        k \in {j \in DOMAIN critical_mounts :
                                 LET r == Findmnt(mnts, fails, "critical", critical_mounts[j])
                                 IN  r.ok /\ Strip(r.stdout) # ""}}
                 from_list ==
                     IF "list" \in fails THEN {}
                     ELSE {DiskNameOf(mnts[i][1]) :
                             i \in {j \in DOMAIN mnts :
                                      /\ \E k \in DOMAIN critical_prefixes :
                                             StartsWith(mnts[j][2], critical_prefixes[k])
                                      /\ StartsWith(mnts[j][1], "/dev/")}}
             IN  from_root \cup from_critical \cup from_list \cup StaticSystemDisks

-----------------------------------------------------------------------------
(* DiskManager._parse_disk_info and detect_disks.                          *)

\* the mount points of a child that mark the whole disk as a system disk
system_mountpoints == {"/", "/boot", "/usr", "/var", "/etc", "/lib", "/bin", "/sbin"}

NoDisk == [name |-> ""]

\* _parse_disk_info without the look at the children's mount points.
ParseDiskInfoByNameOnly(device, sys_disks) ==
    IF _parse_size(device.size) <= 0 THEN NoDisk
    ELSE [name            |-> device.name,
          size            |-> _parse_size(device.size),
          is_system       |-> device.name \in sys_disks,
          has_partitions  |-> Len(device.children) > 0,
          filesystem_type |-> "",
          mount_points    |-> <<>>]

\* _parse_disk_info without the filter on the size.
ParseDiskInfoOfAnySize(device, sys_disks) ==
    [name            |-> device.name,
     size            |-> _parse_size(device.size),
     is_system       |-> device.name \in sys_disks,
     has_partitions  |-> Len(device.children) > 0,
     filesystem_type |-> "",
     mount_points    |-> <<>>]

\* A Disk; model, serial and sector_size are display fields and left out.
_parse_disk_info(device, sys_disks) ==
    LET size_bytes == _parse_size(device.size)
        children   == device.children
        mounted    == SelectSeq(children, LAMBDA c : c.mountpoint # "")
        with_fs    == SelectSeq(children, LAMBDA c : c.fstype # "")
    IN  IF size_bytes <= 0 THEN NoDisk
        ELSE [name            |-> device.name,
              size            |-> size_bytes,
              is_system       |-> \/ device.name \in sys_disks
                                  \/ \E i \in DOMAIN children :
                                        children[i].mountpoint \in system_mountpoints,
              has_partitions  |-> Len(children) > 0,
              \* the fstype of the last child that has one
              filesystem_type |-> IF with_fs = <<>> THEN "" ELSE with_fs[Len(with_fs)].fstype,
              mount_points    |-> [i \in DOMAIN mounted |-> mounted[i].mountpoint]]

RECURSIVE ParseAll(_, _)
ParseAll(devices, sys_disks) ==
    IF devices = <<>> THEN <<>>
    ELSE LET device == Head(devices)
             disk   == IF device.type = "disk"
                       THEN _parse_disk_info(device, sys_disks)
                       ELSE NoDisk
         IN  (IF disk # NoDisk THEN <<disk>> ELSE <<>>)
             \o ParseAll(Tail(devices), sys_disks)

detect_disks(devices, mnts, fails) ==
    ParseAll(devices, _get_system_disks(mnts, fails))

-----------------------------------------------------------------------------
(* The hosts the inventory is run on.                                      *)

\* Kernel partition naming: sda1, but nvme0n1p1 and mmcblk0p1.
PartName(disk, n) ==
    IF CharAt(disk, Len(disk)) \in Digits THEN disk \o "p" \o n ELSE disk \o n

\* The partitions one of which holds the root filesystem.
RootParts == {"sda2", "nvme0n1p2", "nvme1n1p2", "mmcblk0p2", "mmcblk1p2"}

\* At most one more mounted partition: <<partition, mount point>>.
NoMount == <<"", "">>
ExtraMounts ==
    {NoMount} \cup
    ({"sda1", "sdb1", "nvme1n1p3", "mmcblk1p1"} \X {"/home", "/boot", "/lib", "/mnt/data"})

\* The size lsblk prints for an empty card reader (sdc): zero, none or text
\* that is no size; or for one with a card.
CardReaderSizes == {"0B", "", "N/A", "1,5M"}

\* The type lsblk reports for loop0.
LoopTypes == {"loop", "disk"}

FindmntKinds == {"root", "critical", "list"}

DefaultExcludeDisks == {"mmcblk0", "loop*", "sr*", "ram*"}
ExcludeConfigs == {DefaultExcludeDisks, {"loop*", "sr*", "ram*"}, {}}

MountTable(root, extra) ==
    <<  <<"/dev/" \o root, "/">>  >>
    \o (IF extra = NoMount THEN <<>> ELSE << <<"/dev/" \o extra[1], extra[2]>> >>)
    \o << <<"tmpfs", "/tmp">> >>

MountPointOf(mnts, part) ==
    LET hits == {i \in DOMAIN mnts : mnts[i][1] = "/dev/" \o part}
    IN  IF hits = {} THEN "" ELSE mnts[CHOOSE i \in hits : TRUE][2]

\* The signature lsblk reports for a partition: members holds the
\* <<partition, signature>> pairs of the partitions that belong to a pool, an
\* array or a volume group; any other mounted partition is ext4.
FsTypeOf(members, part, mp) ==
    LET hits == {m \in members : m[1] = part}
    IN  IF hits # {} THEN (CHOOSE m \in hits : TRUE)[2]
        ELSE IF mp = "" THEN "" ELSE "ext4"

Device(mnts, members, name, size, type, parts) ==
    [name     |-> name,
     size     |-> size,
     type     |-> type,
     children |-> [i \in DOMAIN parts |->
                     LET part == PartName(name, parts[i])
                         mp   == MountPointOf(mnts, part)
                     IN  [name       |-> part,
                          mountpoint |-> mp,
                          fstype     |-> FsTypeOf(members, part, mp)]]]

BlockDevices(mnts, members, card_size, loop_type) ==
    << Device(mnts, members, "sda", "128M", "disk", <<"1", "2">>),
       Device(mnts, members, "sdb", "128M", "disk", <<"1", "2", "3", "4">>),
       Device(mnts, members, "sdc", card_size, "disk", <<>>),
       Device(mnts, members, "nvme0n1", "64M", "disk", <<"1", "2">>),
       Device(mnts, members, "nvme1n1", "64M", "disk", <<"1", "2", "3", "4">>),
       Device(mnts, members, "mmcblk0", "64M", "disk", <<"1", "2">>),
       Device(mnts, members, "mmcblk0boot0", "4M", "disk", <<>>),
       Device(mnts, members, "mmcblk1", "64M", "disk", <<"1", "2">>),
       Device(mnts, members, "loop0", "100M", loop_type, <<>>),
       Device(mnts, members, "sr0", "700M", "rom", <<>>),
       Device(mnts, members, "ram0", "64M", "disk", <<>>) >>

-----------------------------------------------------------------------------
(* What is already on the disks of a host: a ZFS pool, a BTRFS filesystem, *)
(* an MD array and an LVM volume group, each on partitions of its own.     *)

StorageFeatures == {"zfs", "btrfs", "md", "lvm"}

Members(features) ==
    (IF "zfs" \in features
     THEN {<<"nvme1n1p1", "zfs_member">>, <<"sdb2", "zfs_member">>} ELSE {})
    \cup (IF "btrfs" \in features
          THEN {<<"nvme1n1p2", "btrfs">>, <<"sdb3", "btrfs">>} ELSE {})
    \cup (IF "md" \in features
          THEN {<<"nvme1n1p4", "linux_raid_member">>, <<"sdb4", "linux_raid_member">>}
          ELSE {})
    \cup (IF "lvm" \in features THEN {<<"mmcblk1p2", "LVM2_member">>} ELSE {})
    \cup (IF "md_inactive" \in features
          THEN {<<"mmcblk1p1", "linux_raid_member">>} ELSE {})

\* Where the BTRFS filesystem is mounted, when it is.
BtrfsMount == <<"/dev/nvme1n1p2", "/mnt/btr">>

\* "zfs_lookalike": a pool on the partitions of the disks sdbc and sdbd.
ZpoolStatus(features) ==
    IF features \cap {"zfs", "zfs_lookalike"} = {} THEN <<"no pools available">>
    ELSE (IF "zfs" \in features
          THEN <<"  pool: tank", " state: ONLINE", "config:", "",
                 "    NAME STATE READ WRITE CKSUM",
                 "    tank ONLINE 0 0 0",
                 "      nvme1n1p1 ONLINE 0 0 0",
                 "      sdb2 ONLINE 0 0 0", "",
                 "errors: No known data errors">>
          ELSE <<>>)
         \o (IF {"zfs", "zfs_lookalike"} \subseteq features THEN <<"">> ELSE <<>>)
         \o (IF "zfs_lookalike" \in features
             THEN <<"  pool: vault", " state: ONLINE", "config:", "",
                    "    NAME STATE READ WRITE CKSUM",
                    "    vault ONLINE 0 0 0",
                    "      sdbc2 ONLINE 0 0 0",
                    "      sdbd2 ONLINE 0 0 0", "",
                    "errors: No known data errors">>
             ELSE <<>>)

BtrfsShow(features) ==
    IF "btrfs" \in features
    THEN <<"Label: 'data'  uuid: 1b2c3d4e-5f60",
           "    Total devices 2 FS bytes used 1.00MiB",
           "    devid 1 size 16.00MiB used 8.00MiB path /dev/nvme1n1p2",
           "    devid 2 size 16.00MiB used 8.00MiB path /dev/sdb3", "">>
    ELSE <<"">>

\* "md_whole": a degraded array on the whole disk sdc; "md_inactive": an
\* array that is not running, with a partition of mmcblk1;
\* "md_lookalike": an array on the partitions of the disks sdbc and sdbd.
Mdstat(features) ==
    <<IF features \cap {"md", "md_whole", "md_lookalike"} = {}
      THEN "Personalities : " ELSE "Personalities : [raid1]">>
    \o (IF "md" \in features
        THEN <<"md0 : active raid1 sdb4[1] nvme1n1p4[0]",
               "      16384 blocks [2/2] [UU]", "">>
        ELSE <<>>)
    \o (IF "md_whole" \in features
        THEN <<"md1 : active raid1 sdc[0]",
               "      16384 blocks [2/1] [U_]", "">>
        ELSE <<>>)
    \o (IF "md_inactive" \in features
        THEN <<"md2 : inactive mmcblk1p1[0](S)",
               "      16384 blocks", "">>
        ELSE <<>>)
    \o (IF "md_lookalike" \in features
        THEN <<"md3 : active raid1 sdbd1[1] sdbc1[0]",
               "      16384 blocks [2/2] [UU]", "">>
        ELSE <<>>)
    \o <<"unused devices: <none>">>

Pvs(features) ==
    IF "lvm" \in features THEN <<"  /dev/mmcblk1p2 vg0">> ELSE <<"">>

\* ssd: the disks for which `lsblk -dpno ROTA` prints 0.  erased: the disks
\* whose partition table is overwritten and not yet read again by the kernel.
Storage(features, btrfs_mounted) ==
    [zpool_status  |-> ZpoolStatus(features),
     btrfs_show    |-> BtrfsShow(features),
     mdstat        |-> Mdstat(features),
     pvs           |-> Pvs(features),
     findmnt_btrfs |-> IF "btrfs" \in features /\ btrfs_mounted
                       THEN <<BtrfsMount[2] \o " " \o BtrfsMount[1]>>
                       ELSE <<"">>,
     ssd           |-> {"sda", "sdb"},
     erased        |-> {}]

StorageMountTable(root, extra, features, btrfs_mounted) ==
    MountTable(root, extra)
    \o (IF "btrfs" \in features /\ btrfs_mounted THEN <<BtrfsMount>> ELSE <<>>)

NoFaults == [is_root |-> TRUE, missing |-> {}, failing |-> {}, busy |-> {}]

\* What the operators of the teardown are given.
Host(devices, store, flts) ==
    [devices       |-> devices,
     faults        |-> flts,
     zpool_status  |-> store.zpool_status,
     btrfs_show    |-> store.btrfs_show,
     mdstat        |-> store.mdstat,
     pvs           |-> store.pvs,
     findmnt_btrfs |-> store.findmnt_btrfs,
     ssd           |-> store.ssd]

NoCandidates == [nvme |-> <<>>, ssd |-> <<>>, other |-> <<>>]

\* No wait for partitions yet.
NoPoll == [delay |-> 0, checks |-> 0, seen |-> FALSE]

\* No member analysed yet.
NoInfo == [raised |-> FALSE, has_data |-> FALSE]

\* Before the wizard has started.
IdleWizard ==
    /\ available_disks = <<>>
    /\ fs_type = "none"
    /\ clean_index = 0
    /\ last_disk_info = NoInfo
    /\ partition_poll = NoPoll
    /\ confirmed = {}
    /\ cmds = <<>>
    /\ cache_devices = NoCandidates

-----------------------------------------------------------------------------
(* The inventory scan, on its own.                                         *)

NoReport == [produced |-> FALSE]

InitScan ==
    /\ pc = "scan"
    /\ \E root \in RootParts, extra \in ExtraMounts,
          card_size \in CardReaderSizes, loop_type \in LoopTypes :
          /\ extra[1] # root
          /\ mounts = MountTable(root, extra)
          /\ blockdevices = BlockDevices(MountTable(root, extra), {}, card_size, loop_type)
    /\ findmnt_fail \in SUBSET FindmntKinds
    /\ exclude_disks \in ExcludeConfigs
    /\ storage = Storage({}, FALSE)
    /\ faults = NoFaults
    /\ IdleWizard
    /\ system_disks = {}
    /\ disks = <<>>
    /\ selected_disks = <<>>
    /\ raid_type = "none"
    /\ capacity_info = NoReport

\* DiskManager.detect_disks()
DetectDisks ==
    /\ pc = "scan"
    /\ system_disks' = _get_system_disks(mounts, findmnt_fail)
    /\ disks' = detect_disks(blockdevices, mounts, findmnt_fail)
    /\ pc' = "scanned"
    /\ UNCHANGED <<host_vars, wizard_vars, selected_disks, raid_type, capacity_info>>

NextScan == DetectDisks

SpecScan == InitScan /\ [][NextScan]_vars

\* The inventory entry of a device, if the scan returned one.
Returned(name) == {disks[k] : k \in {j \in DOMAIN disks : disks[j].name = name}}

\* The devices of the host that have a partition mounted at one of `points`.
DevicesMountedAt(points) ==
    {blockdevices[i] : i \in {j \in DOMAIN blockdevices :
        /\ blockdevices[j].type = "disk"
        /\ \E c \in DOMAIN blockdevices[j].children :
              blockdevices[j].children[c].mountpoint \in points}}

-----------------------------------------------------------------------------
(* RAIDManager._calculate_raid_capacity.                                   *)

RAIDType == {"stripe", "mirror", "raidz1", "raidz2", "raidz3", "btrfs_raid0",
             "btrfs_raid1", "btrfs_raid10", "btrfs_raid5", "btrfs_raid6"}

RECURSIVE ToStr(_)
ToStr(n) ==
    IF n < 10 THEN CharAt("0123456789", n + 1)
    ELSE ToStr(n \div 10) \o CharAt("0123456789", (n % 10) + 1)

\* f"{num/den:.1f}" for den > 0: one decimal, ties to the even digit.
Format1(num, den) ==
    LET a      == IF num < 0 THEN 0 - num ELSE num
        whole  == a \div den
        rem    == a % den
        q      == (10 * rem) \div den
        r      == (10 * rem) % den
        up     == 2 * r > den \/ (2 * r = den /\ q % 2 = 1)
        tenths == 10 * whole + q + (IF up THEN 1 ELSE 0)
    IN  (IF num < 0 THEN "-" ELSE "")
        \o ToStr(tenths \div 10) \o "." \o ToStr(tenths % 10)

\* size_to_human: divide by 1024 while the value is not below 1024.
RECURSIVE HumanLoop(_, _, _)
HumanLoop(size_bytes, den, units) ==
    IF units = <<>> THEN Format1(size_bytes, den) \o " PB"
    ELSE IF size_bytes < 1024 * den
         THEN Format1(size_bytes, den) \o " " \o Head(units)
         ELSE HumanLoop(size_bytes, 1024 * den, Tail(units))

size_to_human(size_bytes) == HumanLoop(size_bytes, 1, <<"B", "KB", "MB", "GB", "TB">>)

RECURSIVE Sum(_)
Sum(seq) == IF seq = <<>> THEN 0 ELSE Head(seq) + Sum(Tail(seq))

Min(set) == CHOOSE x \in set : \A y \in set : x <= y

SizesOf(disk_list) == [i \in DOMAIN disk_list |-> disk_list[i].size]

\* f"{(part / disk_count) * 100:.1f}%"
Percent(part, disk_count) == Format1(100 * part, disk_count) \o "%"

\* The figures of one RAID level: the if/elif chain on raid_type.
RaidLevelFigures(rtype, min_size, total_raw, disk_count) ==
    CASE rtype \in {"stripe", "btrfs_raid0"} ->
           [usable_size |-> total_raw,
            redundancy  |-> "Ninguna - Sin tolerancia a fallos",
            efficiency  |-> "100%"]
      [] rtype \in {"mirror", "btrfs_raid1"} ->
           [usable_size |-> min_size * (disk_count \div 2),
            redundancy  |-> "Tolerancia a " \o ToStr(disk_count \div 2) \o " fallos",
            efficiency  |-> Percent(disk_count \div 2, disk_count)]
      [] rtype = "raidz1" ->
           [usable_size |-> min_size * (disk_count - 1),
            redundancy  |-> "Tolerancia a 1 fallo",
            efficiency  |-> Percent(disk_count - 1, disk_count)]
      [] rtype = "raidz2" ->
           [usable_size |-> min_size * (disk_count - 2),
            redundancy  |-> "Tolerancia a 2 fallos",
            efficiency  |-> Percent(disk_count - 2, disk_count)]
      [] rtype = "raidz3" ->
           [usable_size |-> min_size * (disk_count - 3),
            redundancy  |-> "Tolerancia a 3 fallos",
            efficiency  |-> Percent(disk_count - 3, disk_count)]
      [] rtype = "btrfs_raid10" ->
           [usable_size |-> min_size * (disk_count \div 2),
            redundancy  |-> "Tolerancia multiple (RAID 0+1)",
            efficiency  |-> "50%"]
      [] rtype = "btrfs_raid5" ->
           [usable_size |-> min_size * (disk_count - 1),
            redundancy  |-> "Tolerancia a 1 fallo (EXPERIMENTAL)",
            efficiency  |-> Percent(disk_count - 1, disk_count)]
      [] rtype = "btrfs_raid6" ->
           [usable_size |-> min_size * (disk_count - 2),
            redundancy  |-> "Tolerancia a 2 fallos (EXPERIMENTAL)",
            efficiency  |-> Percent(disk_count - 2, disk_count)]
      [] OTHER ->
           [usable_size |-> total_raw,
            redundancy  |-> "Desconocida",
            efficiency  |-> "N/A"]

\* The returned dict, with the locals total_raw and usable_size that its
\* "total" and "usable" strings are formatted from.
CapacityReport(calc, min_size, total_raw) ==
    [produced    |-> TRUE,
     total_raw   |-> total_raw,
     usable_size |-> calc.usable_size,
     total       |-> size_to_human(total_raw),
     usable      |-> size_to_human(calc.usable_size),
     redundancy  |-> calc.redundancy,
     efficiency  |-> calc.efficiency,
     min_disk    |-> size_to_human(min_size)]

EmptyReport ==
    [produced |-> TRUE, total_raw |-> 0, usable_size |-> 0,
     total |-> "0 GB", usable |-> "0 GB", redundancy |-> "Ninguna"]

\* _calculate_raid_capacity bounding the members by the average size
\* instead of the smallest.
CalculateRaidCapacityByAverage(rtype, disk_list) ==
    IF disk_list = <<>> THEN EmptyReport
    ELSE LET total_raw == Sum(SizesOf(disk_list))
             avg_size  == total_raw \div Len(disk_list)
         IN  CapacityReport(RaidLevelFigures(rtype, avg_size, total_raw, Len(disk_list)),
                            avg_size, total_raw)

_calculate_raid_capacity(rtype, disk_list) ==
    IF disk_list = <<>> THEN EmptyReport
    ELSE LET min_size   == Min(Range(SizesOf(disk_list)))
             total_raw  == Sum(SizesOf(disk_list))
             disk_count == Len(disk_list)
         IN  CapacityReport(RaidLevelFigures(rtype, min_size, total_raw, disk_count),
                            min_size, total_raw)

-----------------------------------------------------------------------------
(* SystemManager.run_command and run_command_safe.                         *)
(*                                                                         *)
(* sys describes how the host answers: is_root (the effective user),    *)
(* missing (executables that are not installed), failing (executables that *)
(* exit non-zero, always or, written "lsblk /dev/sdf", when their last      *)
(* argument is the one named) and busy (mount targets a plain umount       *)
(* cannot release).                                                        *)

sudo_commands ==
    {"umount", "mount", "mkfs", "wipefs", "dd", "zpool", "zfs", "btrfs", "mdadm",
     "pvremove", "vgchange", "vgreduce", "lvremove", "partprobe", "sgdisk",
     "mkdir", "chown", "chmod", "apt", "pip", "pip3"}

\* The exit status of the process, once it could be started: TRUE for non-zero.
ExitsNonZero(sys, command) ==
    \/ command[1] \in sys.missing      \* sudo: command not found
    \/ command[1] = "which" /\ command[2] \in sys.missing
    \/ command[1] \in sys.failing
    \/ command[1] \o " " \o command[Len(command)] \in sys.failing
    \/ command[1] = "umount" /\ Len(command) = 2 /\ command[2] \in sys.busy

\* "ok", "fail" (non-zero exit: CalledProcessError when check is set) or
\* "raise" (subprocess.run finds no executable: FileNotFoundError).
run_command(sys, command) ==
    LET command_name == LastSegment(command[1])
        needs_sudo   == command_name \in sudo_commands /\ ~sys.is_root
        argv         == IF needs_sudo THEN <<"sudo">> \o command ELSE command
    IN  IF argv[1] \in sys.missing THEN "raise"
        ELSE IF ExitsNonZero(sys, command) THEN "fail"
        ELSE "ok"

\* TRUE when the command ran and exited with 0; only CalledProcessError is
\* caught, the caller sees any other exception (Issue records it).
run_command_safe(sys, command) == run_command(sys, command) = "ok"

-----------------------------------------------------------------------------
(* What the commands that exit with 0 do to the host.  world is the host   *)
(* as the commands run so far have left it: the block devices, the mount   *)
(* table and what the storage probes print.  The commands that create      *)
(* (zpool create, mkfs.btrfs, mount, sgdisk -n) change nothing the program *)
(* reads afterwards and are left without effect.                           *)

World(devices, mnts, store) == [devices |-> devices, mounts |-> mnts, store |-> store]

\* umount finds its argument mounted, as a source or as a mount point
IsMounted(world, target) ==
    \E i \in DOMAIN world.mounts : target \in {world.mounts[i][1], world.mounts[i][2]}

\* The mount points an argument of umount stands for.
Targets(mnts, target) ==
    {mnts[i][2] : i \in {j \in DOMAIN mnts : target \in {mnts[j][1], mnts[j][2]}}}

WithoutMounts(children, gone) ==
    [k \in DOMAIN children |->
        IF children[k].mountpoint \in gone
        THEN [children[k] EXCEPT !.mountpoint = ""] ELSE children[k]]

\* The lines of findmnt (TARGET SOURCE) without the mount points in gone.
StillMounted(lines, gone) ==
    IF SelectSeq(lines, LAMBDA l : Words(l) # <<>> /\ Words(l)[1] \notin gone) = <<>>
    THEN <<"">>
    ELSE SelectSeq(lines, LAMBDA l : Words(l) # <<>> /\ Words(l)[1] \notin gone)

\* umount <target>
Released(world, gone) ==
    [devices |-> [i \in DOMAIN world.devices |->
                    [world.devices[i] EXCEPT
                       !.children = WithoutMounts(world.devices[i].children, gone)]],
     mounts  |-> SelectSeq(world.mounts, LAMBDA m : m[2] \notin gone),
     store   |-> [world.store EXCEPT
                    !.findmnt_btrfs = StillMounted(world.store.findmnt_btrfs, gone)]]

\* `zpool status` without the lines of a pool; inside tells whether the line
\* before belongs to it.
RECURSIVE DropPool(_, _, _)
DropPool(lines, pool, inside) ==
    IF lines = <<>> THEN <<>>
    ELSE LET line == Strip(Head(lines))
         IN  IF StartsWith(line, "pool:")
             THEN (IF Strip(SplitSecond(line, "pool:")) = pool THEN <<>>
                   ELSE <<Head(lines)>>)
                  \o DropPool(Tail(lines), pool, Strip(SplitSecond(line, "pool:")) = pool)
             ELSE (IF inside THEN <<>> ELSE <<Head(lines)>>)
                  \o DropPool(Tail(lines), pool, inside)

\* zpool export <pool>, zpool destroy <pool>
Exported(world, pool) ==
    [world EXCEPT !.store.zpool_status =
        IF \E i \in DOMAIN @ : Strip(@[i]) = "pool: " \o pool
        THEN (IF DropPool(@, pool, FALSE) = <<>> THEN <<"no pools available">>
              ELSE DropPool(@, pool, FALSE))
        ELSE @]

\* /proc/mdstat without the lines of an array, which end with a blank line.
RECURSIVE DropArray(_, _, _)
DropArray(lines, array, inside) ==
    IF lines = <<>> THEN <<>>
    ELSE IF StartsWith(Head(lines), array \o " :")
    THEN DropArray(Tail(lines), array, TRUE)
    ELSE IF inside
    THEN DropArray(Tail(lines), array, Strip(Head(lines)) # "")
    ELSE <<Head(lines)>> \o DropArray(Tail(lines), array, FALSE)

\* mdadm --stop /dev/<array>
Stopped(world, array) ==
    [world EXCEPT !.store.mdstat = DropArray(@, array, FALSE)]

\* pvremove <device>
PvRemoved(world, device_path) ==
    [world EXCEPT !.store.pvs =
        IF SelectSeq(@, LAMBDA l : Words(l) # <<>> /\ Words(l)[1] # device_path) = <<>>
        THEN <<"">>
        ELSE SelectSeq(@, LAMBDA l : Words(l) # <<>> /\ Words(l)[1] # device_path)]

\* wipefs -a, sgdisk --zap-all or -Z, and dd over the start of the device
\* overwrite its partition table.
ErasesTable(argv) ==
    \/ argv[1] = "wipefs"
    \/ argv[1] = "sgdisk" /\ argv[2] \in {"--zap-all", "-Z"}
    \/ argv[1] = "dd" /\ \A i \in DOMAIN argv : ~StartsWith(argv[i], "seek=")

ErasedDisk(argv) == LastSegment(IF argv[1] = "dd" THEN argv[3] ELSE argv[Len(argv)])

Erased(world, disk_name) == [world EXCEPT !.store.erased = @ \cup {disk_name}]

\* A partition the kernel cannot let go of: mounted, or part of an imported
\* pool or of a running array.
Held(store, child) ==
    \/ child.mountpoint # ""
    \/ \E i \in DOMAIN store.zpool_status : Contains(store.zpool_status[i], child.name)
    \/ \E i \in DOMAIN store.mdstat : Contains(store.mdstat[i], child.name)

\* The lines of a probe that name none of the devices in gone.
NotNaming(lines, gone) ==
    SelectSeq(lines, LAMBDA l : \A k \in DOMAIN Words(l) : Words(l)[k] \notin gone)

\* partprobe /dev/<disk> after its partition table was overwritten: the
\* partitions that are not held are gone, for lsblk, pvs and btrfs.
Reread(world, disk_name, gone) ==
    [devices |-> [i \in DOMAIN world.devices |->
                    IF world.devices[i].name = disk_name
                    THEN [world.devices[i] EXCEPT
                            !.children = SelectSeq(@, LAMBDA c : Held(world.store, c))]
                    ELSE world.devices[i]],
     mounts  |-> world.mounts,
     store   |-> [world.store EXCEPT
                    !.pvs = NotNaming(@, gone),
                    !.btrfs_show = NotNaming(@, gone),
                    !.erased = @ \ {disk_name}]]

\* The device paths of the partitions of a disk that are not held.
Loose(world, disk_name) ==
    {"/dev/" \o c.name :
        c \in {d \in UNION {Range(world.devices[i].children) :
                              i \in {j \in DOMAIN world.devices :
                                       world.devices[j].name = disk_name}} :
                 ~Held(world.store, d)}}

Effect(world, argv) ==
    IF argv[1] = "umount"
    THEN Released(world, Targets(world.mounts, argv[Len(argv)]))
    ELSE IF argv[1] = "zpool" /\ argv[2] \in {"export", "destroy"}
    THEN Exported(world, argv[Len(argv)])
    ELSE IF argv[1] = "mdadm" /\ argv[2] = "--stop"
    THEN Stopped(world, LastSegment(argv[Len(argv)]))
    ELSE IF argv[1] = "pvremove"
    THEN PvRemoved(world, argv[Len(argv)])
    ELSE IF ErasesTable(argv)
    THEN Erased(world, ErasedDisk(argv))
    ELSE IF argv[1] = "partprobe" /\ LastSegment(argv[2]) \in world.store.erased
    THEN Reread(world, LastSegment(argv[2]), Loose(world, LastSegment(argv[2])))
    ELSE world

\* zpool finds the pool imported
PoolImported(world, pool) ==
    \E i \in DOMAIN world.store.zpool_status :
       Strip(world.store.zpool_status[i]) = "pool: " \o pool

\* How a command ends on the host as it is: run_command, and umount exits
\* non-zero for what is not mounted, zpool export and zpool destroy for a
\* pool that is not imported.
Outcome(world, sys, command) ==
    IF /\ run_command(sys, command) = "ok"
       /\ \/ /\ command[1] = "umount"
             /\ ~IsMounted(world, command[Len(command)])
          \/ /\ command[1] = "zpool"
             /\ command[2] \in {"export", "destroy"}
             /\ ~PoolImported(world, command[Len(command)])
    THEN "fail"
    ELSE run_command(sys, command)

\* The commands run so far, each with the disk it is run for and how it
\* ended, the host as they left it, and whether an exception is propagating (nothing more runs
\* until it is caught): raised for any exception, failed for the
\* CalledProcessError of a checked command.
Run(log, world) == [log |-> log, raised |-> FALSE, failed |-> FALSE, world |-> world]

Issue(run, sys, disk_name, command) ==
    IF run.raised THEN run
    ELSE [log    |-> Append(run.log, [disk |-> disk_name, argv |-> command,
                                       status |-> Outcome(run.world, sys, command)]),
          raised |-> Outcome(run.world, sys, command) = "raise",
          failed |-> run.failed,
          world  |-> IF Outcome(run.world, sys, command) = "ok"
                     THEN Effect(run.world, command) ELSE run.world]

-----------------------------------------------------------------------------
(* RAIDManager._analyze_disk_configuration.  host.devices is what lsblk    *)
(* knows, host.zpool_status, host.btrfs_show, host.mdstat and host.pvs are *)
(* the lines the four other probes print.  The 'details' texts, which are   *)
(* only shown, are left out.                                               *)

\* The branch lsblk draws before the name of a partition: the ASCII form,
\* with an apostrophe where lsblk prints a backquote (a UTF-8 locale draws
\* the same tree with box characters).
Branch(i, n) == IF i = n THEN "'-" ELSE "|-"

\* `lsblk -n -o NAME,MOUNTPOINT,FSTYPE /dev/<disk>`: a row for the disk and
\* one per partition, the names drawn as a tree; an empty column is blank.
LsblkRows(devices, disk_name) ==
    LET hits == SelectSeq(devices, LAMBDA d : d.name = disk_name)
    IN  IF hits = <<>> THEN <<>>
        ELSE <<hits[1].name>>
             \o [i \in DOMAIN hits[1].children |->
                   JoinWords(<<Branch(i, Len(hits[1].children))
                                 \o hits[1].children[i].name,
                               hits[1].children[i].mountpoint,
                               hits[1].children[i].fstype>>)]

CleanInfo ==
    [has_data |-> FALSE, zfs_pools |-> <<>>, btrfs_filesystems |-> <<>>,
     mdadm_arrays |-> <<>>, lvm_volumes |-> <<>>, mounted_partitions |-> <<>>,
     partitions |-> <<>>, raised |-> FALSE]

\* 1. the rows of lsblk
RECURSIVE ScanPartitions(_, _, _)
ScanPartitions(lines, disk_name, info) ==
    IF lines = <<>> THEN info
    ELSE LET line       == Head(lines)
             parts      == Words(line)
             part_name  == parts[1]
             mountpoint == IF Len(parts) > 1 THEN parts[2] ELSE ""
             found      == [info EXCEPT
                              !.partitions = Append(@, part_name),
                              !.has_data = TRUE,
                              !.mounted_partitions =
                                  IF mountpoint # ""
                                  THEN Append(@, "/dev/" \o part_name \o " en " \o mountpoint)
                                  ELSE @]
         IN  ScanPartitions(Tail(lines), disk_name,
                            IF Strip(line) # "" /\ part_name # disk_name
                            THEN found ELSE info)

\* 2. the lines of `zpool status`; current_pool is "" for None
RECURSIVE ScanZpoolStatus(_, _, _, _)
ScanZpoolStatus(lines, disk_name, current_pool, info) ==
    IF lines = <<>> THEN info
    ELSE LET line == Strip(Head(lines))
         IN  IF StartsWith(line, "pool:")
             THEN ScanZpoolStatus(Tail(lines), disk_name,
                                  Strip(SplitSecond(line, "pool:")), info)
             ELSE IF /\ current_pool # ""
                     /\ \/ Contains(line, disk_name)
                        \/ \E i \in 1..9 : Contains(line, disk_name \o "p" \o ToStr(i))
                     /\ current_pool \notin Range(info.zfs_pools)
                  THEN ScanZpoolStatus(Tail(lines), disk_name, current_pool,
                                       [info EXCEPT !.zfs_pools = Append(@, current_pool),
                                                    !.has_data = TRUE])
                  ELSE ScanZpoolStatus(Tail(lines), disk_name, current_pool, info)

\* Python's None, where the code tells it from a string.
None == "<None>"

\* 3. the lines of `btrfs filesystem show`; current_label is "" for None.
\* current_uuid[:8] on None is a TypeError.
RECURSIVE ScanBtrfsShow(_, _, _, _, _)
ScanBtrfsShow(lines, device_path, current_uuid, current_label, info) ==
    IF lines = <<>> \/ info.raised THEN info
    ELSE LET line    == Head(lines)
             fs_name == IF current_label # "" THEN current_label
                        ELSE "UUID " \o SubSeq(current_uuid, 1, 8) \o "..."
         IN  IF Contains(line, "uuid:")
             THEN ScanBtrfsShow(Tail(lines), device_path,
                                Strip(SplitSecond(line, "uuid:")), "", info)
             ELSE IF Contains(line, "Label:")
             THEN ScanBtrfsShow(Tail(lines), device_path, current_uuid,
                                Remove(Strip(SplitSecond(line, "Label:")), "'"), info)
             ELSE IF Contains(line, "devid") /\ Contains(line, device_path)
             THEN ScanBtrfsShow(Tail(lines), device_path, current_uuid, current_label,
                                IF current_label = "" /\ current_uuid = None
                                THEN [info EXCEPT !.raised = TRUE]
                                ELSE [info EXCEPT !.btrfs_filesystems = Append(@, fs_name),
                                                  !.has_data = TRUE])
             ELSE ScanBtrfsShow(Tail(lines), device_path, current_uuid, current_label, info)

\* ScanMdstat that records the arrays and leaves has_data as it was.
RECURSIVE ScanMdstatWithoutFlag(_, _, _)
ScanMdstatWithoutFlag(lines, disk_name, info) ==
    IF lines = <<>> THEN info
    ELSE LET line == Head(lines)
         IN  ScanMdstatWithoutFlag(Tail(lines), disk_name,
                        IF Contains(line, "active") /\ Contains(line, disk_name)
                        THEN [info EXCEPT
                                !.mdadm_arrays = Append(@, Strip(SplitHead(line, ":")))]
                        ELSE info)

\* 4. the lines of /proc/mdstat
RECURSIVE ScanMdstat(_, _, _)
ScanMdstat(lines, disk_name, info) ==
    IF lines = <<>> THEN info
    ELSE LET line == Head(lines)
         IN  ScanMdstat(Tail(lines), disk_name,
                        IF Contains(line, "active") /\ Contains(line, disk_name)
                        THEN [info EXCEPT
                                !.mdadm_arrays = Append(@, Strip(SplitHead(line, ":"))),
                                !.has_data = TRUE]
                        ELSE info)

\* 5. the lines of `pvs --noheadings -o pv_name,vg_name`
RECURSIVE ScanPvs(_, _, _)
ScanPvs(lines, device_path, info) ==
    IF lines = <<>> THEN info
    ELSE LET line  == Head(lines)
             parts == Words(line)
         IN  ScanPvs(Tail(lines), device_path,
                     IF Strip(line) # "" /\ Contains(line, device_path) /\ Len(parts) >= 2
                     THEN [info EXCEPT !.lvm_volumes = Append(@, parts[2]),
                                       !.has_data = TRUE]
                     ELSE info)

\* The commands of one probe, run in turn: "ok" when each exits with 0,
\* otherwise how the first other one ends.  "fail" is the CalledProcessError
\* that the probe's try block swallows, "raise" leaves the analyzer.
RECURSIVE Probe(_, _)
Probe(sys, commands) ==
    IF commands = <<>> THEN "ok"
    ELSE IF run_command(sys, Head(commands)) # "ok"
         THEN run_command(sys, Head(commands))
         ELSE Probe(sys, Tail(commands))

\* ProbeStep that lets the failure of a probe end the analysis.
ProbeStepAborting(outcome, info, found) ==
    IF info.raised THEN info
    ELSE IF outcome = "ok" THEN found
    ELSE [info EXCEPT !.raised = TRUE]

\* One probe of the analyzer: found is what its scan adds to info.
ProbeStep(outcome, info, found) ==
    IF info.raised THEN info
    ELSE IF outcome = "raise" THEN [info EXCEPT !.raised = TRUE]
    ELSE IF outcome = "ok" THEN found
    ELSE info

\* The five probes, each adding to what the ones before it found.
ProbePartitions(host, disk_name, info) ==
    ProbeStep(Probe(host.faults, << <<"lsblk", "-n", "-o", "NAME,MOUNTPOINT,FSTYPE",
                                      "/dev/" \o disk_name>> >>),
              info, ScanPartitions(LsblkRows(host.devices, disk_name), disk_name, info))

ProbeZfs(host, disk_name, info) ==
    ProbeStep(Probe(host.faults, << <<"which", "zpool">>, <<"zpool", "status">> >>),
              info, ScanZpoolStatus(host.zpool_status, disk_name, "", info))

ProbeBtrfs(host, disk_name, info) ==
    ProbeStep(Probe(host.faults, << <<"which", "btrfs">>,
                                    <<"btrfs", "filesystem", "show">> >>),
              info, ScanBtrfsShow(host.btrfs_show, "/dev/" \o disk_name, None, "", info))

ProbeMdadm(host, disk_name, info) ==
    ProbeStep(Probe(host.faults, << <<"cat", "/proc/mdstat">> >>),
              info, ScanMdstat(host.mdstat, disk_name, info))

ProbeLvm(host, disk_name, info) ==
    ProbeStep(Probe(host.faults, << <<"which", "pvs">>,
                                    <<"pvs", "--noheadings", "-o", "pv_name,vg_name">> >>),
              info, ScanPvs(host.pvs, "/dev/" \o disk_name, info))

_analyze_disk_configuration(host, disk_name) ==
    ProbeLvm(host, disk_name,
      ProbeMdadm(host, disk_name,
        ProbeBtrfs(host, disk_name,
          ProbeZfs(host, disk_name,
            ProbePartitions(host, disk_name, CleanInfo)))))

-----------------------------------------------------------------------------
(* RAIDManager._wipe_disk_completely and _perform_disk_cleanup.  Each      *)
(* takes the run so far and gives the run after it; findmnt_btrfs is what  *)
(* `findmnt -t btrfs -n -o TARGET,SOURCE` prints.                          *)

\* `lsblk -dpno SIZE /dev/<disk> --bytes`
SizeInBytes(devices, disk_name) ==
    LET hits == SelectSeq(devices, LAMBDA d : d.name = disk_name)
    IN  IF hits = <<>> THEN "" ELSE ToStr(_parse_size(hits[1].size))

\* WipeTail with the check of the size as disk_size >= 104857600.
WipeTailFromHundred(host, disk_name, run) ==
    LET device_path == "/dev/" \o disk_name
        size_cmd    == <<"lsblk", "-dpno", "SIZE", device_path, "--bytes">>
        size_text   == Strip(SizeInBytes(host.devices, disk_name))
        seek_mb     == (ToInt(size_text) \div 1048576) - 100
    IN  IF /\ run_command(host.faults, size_cmd) = "ok"
           /\ IsDigits(size_text)
           /\ ToInt(size_text) >= 104857600
        THEN Issue(Issue(run, host.faults, disk_name, size_cmd),
                   host.faults, disk_name,
                   <<"dd", "if=/dev/zero", "of=" \o device_path, "bs=1M",
                     "seek=" \o ToStr(seek_mb), "count=100", "conv=fsync">>)
        ELSE Issue(run, host.faults, disk_name, size_cmd)

\* 5. of the wipe: the last 100 MiB of a disk larger than that; int() of
\* text that is no number is a ValueError, which is caught
WipeTail(host, disk_name, run) ==
    LET device_path == "/dev/" \o disk_name
        size_cmd    == <<"lsblk", "-dpno", "SIZE", device_path, "--bytes">>
        size_text   == Strip(SizeInBytes(host.devices, disk_name))
        seek_mb     == (ToInt(size_text) \div 1048576) - 100
    IN  IF /\ run_command(host.faults, size_cmd) = "ok"
           /\ IsDigits(size_text)
           /\ ToInt(size_text) > 104857600
        THEN Issue(Issue(run, host.faults, disk_name, size_cmd),
                   host.faults, disk_name,
                   <<"dd", "if=/dev/zero", "of=" \o device_path, "bs=1M",
                     "seek=" \o ToStr(seek_mb), "count=100", "conv=fsync">>)
        ELSE Issue(run, host.faults, disk_name, size_cmd)

\* 6. of the wipe: the GPT structures, or the MBR sector when sgdisk fails
WipePartitionTable(host, disk_name, run) ==
    LET device_path == "/dev/" \o disk_name
        zap         == <<"sgdisk", "--zap-all", device_path>>
    IN  IF run_command_safe(host.faults, zap)
        THEN Issue(run, host.faults, disk_name, zap)
        ELSE Issue(Issue(run, host.faults, disk_name, zap),
                   host.faults, disk_name,
                   <<"dd", "if=/dev/zero", "of=" \o device_path, "bs=512", "count=1",
                     "conv=fsync">>)

_wipe_disk_completely(host, disk_name, run) ==
    LET device_path == "/dev/" \o disk_name
        f  == host.faults
        \* 1. ZFS labels; the result of `which` is not looked at
        r1 == Issue(run, f, disk_name, <<"which", "zpool">>)
        r2 == Issue(r1, f, disk_name, <<"zpool", "labelclear", "-f", device_path>>)
        \* 2. MDADM metadata
        r3 == Issue(r2, f, disk_name, <<"mdadm", "--zero-superblock", device_path>>)
        \* 3. filesystem signatures
        r4 == Issue(r3, f, disk_name, <<"wipefs", "-af", device_path>>)
        \* 4. the first 100 MiB
        r5 == Issue(r4, f, disk_name,
                    <<"dd", "if=/dev/zero", "of=" \o device_path, "bs=1M", "count=100",
                      "conv=fsync">>)
        r6 == WipeTail(host, disk_name, r5)
        r7 == WipePartitionTable(host, disk_name, r6)
        \* 7. tell the kernel and wait
        r8 == Issue(r7, f, disk_name, <<"partprobe", device_path>>)
    IN  Issue(r8, f, disk_name, <<"udevadm", "settle">>)

UnmountTwice(sys, disk_name, target, run) ==
    Issue(Issue(run, sys, disk_name, <<"umount", target>>),
          sys, disk_name, <<"umount", "-f", target>>)

\* umount, and umount -f when that fails
Unmount(sys, disk_name, target, run) ==
    IF Outcome(run.world, sys, <<"umount", target>>) = "ok"
    THEN Issue(run, sys, disk_name, <<"umount", target>>)
    ELSE Issue(Issue(run, sys, disk_name, <<"umount", target>>),
               sys, disk_name, <<"umount", "-f", target>>)

\* 1. for partition_info in disk_info['mounted_partitions']
RECURSIVE UnmountPartitions(_, _, _, _)
UnmountPartitions(sys, disk_name, mounted_partitions, run) ==
    IF mounted_partitions = <<>> THEN run
    ELSE UnmountPartitions(sys, disk_name, Tail(mounted_partitions),
                           Unmount(sys, disk_name,
                                   SplitHead(Head(mounted_partitions), " en "), run))

\* 2. for pool in disk_info['zfs_pools']
RECURSIVE DestroyPools(_, _, _, _)
DestroyPools(sys, disk_name, zfs_pools, run) ==
    IF zfs_pools = <<>> THEN run
    ELSE LET r1 == Issue(run, sys, disk_name, <<"zpool", "export", Head(zfs_pools)>>)
             r2 == Issue(r1, sys, disk_name,
                         <<"zpool", "destroy", "-f", Head(zfs_pools)>>)
         IN  DestroyPools(sys, disk_name, Tail(zfs_pools), r2)

\* 3. for line in the output of findmnt
RECURSIVE UnmountBtrfs(_, _, _, _)
UnmountBtrfs(sys, disk_name, lines, run) ==
    IF lines = <<>> THEN run
    ELSE UnmountBtrfs(sys, disk_name, Tail(lines),
                      IF Strip(Head(lines)) # "" /\ Contains(Head(lines), "/dev/" \o disk_name)
                      THEN Unmount(sys, disk_name, Words(Head(lines))[1], run)
                      ELSE run)

\* 3. if disk_info['btrfs_filesystems']
CleanBtrfs(host, disk_name, disk_info, run) ==
    LET findmnt == <<"findmnt", "-t", "btrfs", "-n", "-o", "TARGET,SOURCE">>
    IN  IF disk_info.btrfs_filesystems = <<>> THEN run
        ELSE IF run_command(host.faults, findmnt) = "ok"
        THEN UnmountBtrfs(host.faults, disk_name, run.world.store.findmnt_btrfs,
                          Issue(run, host.faults, disk_name, findmnt))
        ELSE Issue(run, host.faults, disk_name, findmnt)

\* 4. for array in disk_info['mdadm_arrays']
RECURSIVE StopArrays(_, _, _, _)
StopArrays(sys, disk_name, mdadm_arrays, run) ==
    IF mdadm_arrays = <<>> THEN run
    ELSE StopArrays(sys, disk_name, Tail(mdadm_arrays),
                    Issue(run, sys, disk_name,
                          <<"mdadm", "--stop", "/dev/" \o Head(mdadm_arrays)>>))

\* RemoveFromVolumeGroups with the label removed before the volume group is
\* deactivated and reduced.
RECURSIVE RemoveFromVolumeGroupsLabelFirst(_, _, _, _)
RemoveFromVolumeGroupsLabelFirst(sys, disk_name, lvm_volumes, run) ==
    IF lvm_volumes = <<>> THEN run
    ELSE LET vg == Head(lvm_volumes)
             device_path == "/dev/" \o disk_name
             r1 == Issue(run, sys, disk_name, <<"pvremove", "-ff", device_path>>)
             r2 == Issue(r1, sys, disk_name, <<"vgchange", "-an", vg>>)
             r3 == Issue(r2, sys, disk_name, <<"vgreduce", vg, device_path>>)
         IN  RemoveFromVolumeGroupsLabelFirst(sys, disk_name, Tail(lvm_volumes), r3)

\* 5. for vg in disk_info['lvm_volumes']
RECURSIVE RemoveFromVolumeGroups(_, _, _, _)
RemoveFromVolumeGroups(sys, disk_name, lvm_volumes, run) ==
    IF lvm_volumes = <<>> THEN run
    ELSE LET vg == Head(lvm_volumes)
             device_path == "/dev/" \o disk_name
             r1 == Issue(run, sys, disk_name, <<"vgchange", "-an", vg>>)
             r2 == Issue(r1, sys, disk_name, <<"vgreduce", vg, device_path>>)
             r3 == Issue(r2, sys, disk_name, <<"pvremove", "-ff", device_path>>)
         IN  RemoveFromVolumeGroups(sys, disk_name, Tail(lvm_volumes), r3)

\* _perform_disk_cleanup with the pools destroyed before the partitions are
\* unmounted.
PerformDiskCleanupPoolsFirst(host, disk_name, disk_info, run) ==
    IF ~disk_info.has_data THEN run
    ELSE LET f  == host.faults
             r1 == DestroyPools(f, disk_name, disk_info.zfs_pools, run)
             r2 == UnmountPartitions(f, disk_name, disk_info.mounted_partitions, r1)
             r3 == CleanBtrfs(host, disk_name, disk_info, r2)
             r4 == StopArrays(f, disk_name, disk_info.mdadm_arrays, r3)
             r5 == RemoveFromVolumeGroups(f, disk_name, disk_info.lvm_volumes, r4)
         IN  _wipe_disk_completely(host, disk_name, r5)

_perform_disk_cleanup(host, disk_name, disk_info, run) ==
    IF ~disk_info.has_data THEN run
    ELSE LET f  == host.faults
             r1 == UnmountPartitions(f, disk_name, disk_info.mounted_partitions, run)
             r2 == DestroyPools(f, disk_name, disk_info.zfs_pools, r1)
             r3 == CleanBtrfs(host, disk_name, disk_info, r2)
             r4 == StopArrays(f, disk_name, disk_info.mdadm_arrays, r3)
             r5 == RemoveFromVolumeGroups(f, disk_name, disk_info.lvm_volumes, r4)
         IN  _wipe_disk_completely(host, disk_name, r5)

\* The try block of the loop of _clean_disks: analysis, then cleanup when the
\* disk has data.
AnalyzeAndClean(host, disk_name, disk_info, run) ==
    IF disk_info.raised THEN [run EXCEPT !.raised = TRUE]
    ELSE IF disk_info.has_data
    THEN _perform_disk_cleanup(host, disk_name, disk_info, run)
    ELSE run

\* Its except block: the wipe alone; an exception of that wipe leaves
\* _clean_disks.
BasicCleanup(host, disk_name, run) ==
    IF run.raised
    THEN _wipe_disk_completely(host, disk_name, [run EXCEPT !.raised = FALSE])
    ELSE run

\* The body of the loop of _clean_disks for one disk.
CleanOneDisk(host, disk_name, run) ==
    BasicCleanup(host, disk_name,
                 AnalyzeAndClean(host, disk_name,
                                 _analyze_disk_configuration(host, disk_name), run))

-----------------------------------------------------------------------------
(* The capacity model, on its own: any topology on any list of disks.      *)

MaxDisks == 5

\* disk sizes in bytes
DiskSizes == {1024, 2048, 3072}

DiskNames == <<"sda", "sdb", "sdc", "sdd", "sde", "sdf", "sdg", "sdh">>

BlankDisk(name, size) ==
    [name |-> name, size |-> size, is_system |-> FALSE, has_partitions |-> FALSE,
     filesystem_type |-> "", mount_points |-> <<>>]

DiskLists ==
    UNION {{[i \in 1..n |-> BlankDisk(DiskNames[i], f[i])] : f \in [1..n -> DiskSizes]} :
             n \in 0..MaxDisks}

InitCapacity ==
    /\ pc = "compute"
    /\ raid_type \in RAIDType
    /\ selected_disks \in DiskLists
    /\ capacity_info = NoReport
    /\ blockdevices = <<>>
    /\ mounts = <<>>
    /\ findmnt_fail = {}
    /\ exclude_disks = DefaultExcludeDisks
    /\ storage = Storage({}, FALSE)
    /\ faults = NoFaults
    /\ system_disks = {}
    /\ disks = <<>>
    /\ IdleWizard

\* capacity_info = self._calculate_raid_capacity(raid_type, selected_disks)
CalculateRaidCapacity ==
    /\ pc = "compute"
    /\ capacity_info' = _calculate_raid_capacity(raid_type, selected_disks)
    /\ pc' = "computed"
    /\ UNCHANGED <<host_vars, wizard_vars, system_disks, disks, selected_disks,
                   raid_type>>

NextCapacity == CalculateRaidCapacity

SpecCapacity == InitCapacity /\ [][NextCapacity]_vars

-----------------------------------------------------------------------------
(* RAIDManager.create_raid_wizard: the operators of its steps.             *)

\* available_disks without the filter on is_system.
AvailableDisksUnfiltered(disk_list) == disk_list

\* available_disks = [d for d in disks if not d.is_system]
AvailableDisks(disk_list) == SelectSeq(disk_list, LAMBDA d : ~d.is_system)

\* _select_disks: the number of a disk adds it to the selection or takes it out
Toggle(selection, disk) ==
    IF disk \in Range(selection)
    THEN SelectSeq(selection, LAMBDA d : d # disk)
    ELSE Append(selection, disk)

\* _select_disks: disks_with_data
DisksWithData(selection) ==
    SelectSeq(selection, LAMBDA d : d.has_partitions \/ d.filesystem_type # "")

\* _select_zfs_raid_type: the options of the menu
ZfsRaidOptions(disk_count) ==
    {"stripe"}
    \cup (IF disk_count >= 2 THEN {"mirror"} ELSE {})
    \cup (IF disk_count >= 3 THEN {"raidz1"} ELSE {})
    \cup (IF disk_count >= 4 THEN {"raidz2"} ELSE {})
    \cup (IF disk_count >= 5 THEN {"raidz3"} ELSE {})

\* _select_btrfs_raid_type: the options of the menu
BtrfsRaidOptions(disk_count) ==
    {"btrfs_raid0"}
    \cup (IF disk_count >= 2 THEN {"btrfs_raid1"} ELSE {})
    \cup (IF disk_count >= 4 THEN {"btrfs_raid10"} ELSE {})
    \cup (IF disk_count >= 3 THEN {"btrfs_raid5"} ELSE {})
    \cup (IF disk_count >= 4 THEN {"btrfs_raid6"} ELSE {})

\* What _select_raid_type can return: an option of the menu, or None for "0".
_select_raid_type(fs, disk_count) ==
    {None} \cup (IF fs = "zfs" THEN ZfsRaidOptions(disk_count)
                 ELSE BtrfsRaidOptions(disk_count))

\* run_command with check set: a non-zero exit is a CalledProcessError, which
\* propagates (run.failed) until the try block around it catches it.
IssueChecked(run, sys, disk_name, command) ==
    IF run.raised \/ run.failed THEN run
    ELSE [log    |-> Append(run.log, [disk |-> disk_name, argv |-> command,
                                       status |-> Outcome(run.world, sys, command)]),
          raised |-> Outcome(run.world, sys, command) = "raise",
          failed |-> Outcome(run.world, sys, command) = "fail",
          world  |-> IF Outcome(run.world, sys, command) = "ok"
                     THEN Effect(run.world, command) ELSE run.world]

\* except subprocess.CalledProcessError
Caught(run) == [run EXCEPT !.failed = FALSE]

DevicePaths(disk_list) == [i \in DOMAIN disk_list |-> "/dev/" \o disk_list[i].name]

\* The pool name the prompt of _get_zfs_pool_name proposes.
DefaultPoolName == "storage"

\* _create_zfs_raid up to the pool: `which zpool`, then _create_zfs_pool with
\* the ashift of disks that report no 4K sectors and the default pool name.
\* The commands in between (lsmod, modprobe, zpool list) name no disk and
\* are left out.
_create_zfs_raid(sys, rtype, disk_list, run) ==
    LET level == IF rtype = "stripe" THEN <<>> ELSE <<rtype>>
        r1 == IssueChecked(run, sys, "", <<"which", "zpool">>)
    IN  IssueChecked(r1, sys, "",
                     <<"zpool", "create", "-f", "-o", "ashift=12", DefaultPoolName>>
                     \o level \o DevicePaths(disk_list))

\* raid_mapping of _create_btrfs_raid
BtrfsLevel(rtype) == SubSeq(rtype, Len("btrfs_") + 1, Len(rtype))

\* _create_btrfs_raid: `which mkfs.btrfs`, the consent for the experimental
\* levels (refusing raises), then _create_btrfs_filesystem.
_create_btrfs_raid(sys, rtype, disk_list, consent, run) ==
    LET level == BtrfsLevel(rtype)
        r1 == IssueChecked(run, sys, "", <<"which", "mkfs.btrfs">>)
        r2 == IF rtype \in {"btrfs_raid5", "btrfs_raid6"} /\ ~consent
              THEN [r1 EXCEPT !.raised = TRUE] ELSE r1
        r3 == IssueChecked(r2, sys, "",
                           <<"mkfs.btrfs", "-f", "-d", level, "-m", level>>
                           \o DevicePaths(disk_list))
    IN  IssueChecked(r3, sys, "",
                     <<"mount", "/dev/" \o disk_list[1].name, "/mnt/btrfs_raid">>)

\* _is_ssd: `lsblk -dpno ROTA /dev/<disk>` prints 0
_is_ssd(host, disk) ==
    /\ run_command(host.faults, <<"lsblk", "-dpno", "ROTA", "/dev/" \o disk.name>>) = "ok"
    /\ disk.name \in host.ssd

\* _detect_cache_devices without the look at the names of the pool's disks.
DetectCacheDevicesIgnoringPool(host, all_disks, pool_disks) ==
    LET eligible == SelectSeq(all_disks, LAMBDA d : ~d.is_system)
    IN  [nvme  |-> SelectSeq(eligible, LAMBDA d : StartsWith(d.name, "nvme")),
         ssd   |-> SelectSeq(eligible, LAMBDA d : ~StartsWith(d.name, "nvme")
                                                  /\ _is_ssd(host, d)),
         other |-> SelectSeq(eligible, LAMBDA d : ~StartsWith(d.name, "nvme")
                                                  /\ ~_is_ssd(host, d))]

\* _detect_cache_devices, given the fresh inventory all_disks
_detect_cache_devices(host, all_disks, pool_disks) ==
    LET pool_disk_names == {pool_disks[i].name : i \in DOMAIN pool_disks}
        eligible == SelectSeq(all_disks,
                              LAMBDA d : ~(d.is_system \/ d.name \in pool_disk_names))
    IN  [nvme  |-> SelectSeq(eligible, LAMBDA d : StartsWith(d.name, "nvme")),
         ssd   |-> SelectSeq(eligible, LAMBDA d : ~StartsWith(d.name, "nvme")
                                                  /\ _is_ssd(host, d)),
         other |-> SelectSeq(eligible, LAMBDA d : ~StartsWith(d.name, "nvme")
                                                  /\ ~_is_ssd(host, d))]

SelectCacheDeviceOfAnyClass(candidates) ==
    {NoDisk} \cup Range(candidates.nvme \o candidates.ssd \o candidates.other)

\* What _select_cache_device can return: one of the NVMe and SSD candidates,
\* or None (no candidate, the offer of the only one declined, or 'q').
_select_cache_device(candidates) ==
    {NoDisk} \cup Range(candidates.nvme \o candidates.ssd)

\* for mount_point in device.mount_points: umount, failures ignored
RECURSIVE UnmountAll(_, _, _, _)
UnmountAll(sys, disk_name, mount_points, run) ==
    IF mount_points = <<>> THEN run
    ELSE UnmountAll(sys, disk_name, Tail(mount_points),
                    Caught(IssueChecked(run, sys, disk_name,
                                        <<"umount", Head(mount_points)>>)))

\* True when the try block of _prepare_cache_device ran to its end
Prepared(run) == [ok |-> ~run.failed /\ ~run.raised, run |-> Caught(run)]

\* _prepare_cache_device: [ok, run]; consent is the answer to the warning
\* that is shown for a device with partitions or a filesystem.
_prepare_cache_device(sys, device, consent, run) ==
    IF run.raised THEN [ok |-> FALSE, run |-> run]
    ELSE IF (device.has_partitions \/ device.filesystem_type # "") /\ ~consent
    THEN [ok |-> FALSE, run |-> run]
    ELSE LET r1 == UnmountAll(sys, device.name, device.mount_points, run)
             r2 == IssueChecked(r1, sys, device.name,
                                <<"wipefs", "-a", "/dev/" \o device.name>>)
         IN  Prepared(IssueChecked(r2, sys, device.name,
                                   <<"sgdisk", "-Z", "/dev/" \o device.name>>))

\* zpool add <pool> cache|log <device>
ZpoolAdd(sys, role, disk_name, path, run) ==
    IssueChecked(run, sys, disk_name, <<"zpool", "add", DefaultPoolName, role, path>>)

\* _setup_l2arc_only (role "cache") and _setup_slog_only (role "log")
AttachSingle(sys, role, device, prepared) ==
    IF ~prepared.ok THEN prepared.run
    ELSE Caught(ZpoolAdd(sys, role, device.name, "/dev/" \o device.name, prepared.run))

SetupSingleCache(sys, role, device, consent, run) ==
    IF device = NoDisk THEN run
    ELSE AttachSingle(sys, role, device,
                      _prepare_cache_device(sys, device, consent, run))

\* cache_devices without the device chosen for L2ARC
WithDeviceKept(candidates, device) == candidates

WithoutDevice(candidates, device) ==
    [nvme  |-> SelectSeq(candidates.nvme, LAMBDA d : d.name # device.name),
     ssd   |-> SelectSeq(candidates.ssd, LAMBDA d : d.name # device.name),
     other |-> SelectSeq(candidates.other, LAMBDA d : d.name # device.name)]

\* _setup_separate_cache_devices, once both devices are chosen
AttachSeparate(sys, l2arc_device, slog_device, second) ==
    IF ~second.ok THEN second.run
    ELSE Caught(ZpoolAdd(sys, "log", slog_device.name, "/dev/" \o slog_device.name,
                ZpoolAdd(sys, "cache", l2arc_device.name,
                         "/dev/" \o l2arc_device.name, second.run)))

PrepareSecond(sys, l2arc_device, slog_device, consent2, first) ==
    IF ~first.ok THEN first.run
    ELSE AttachSeparate(sys, l2arc_device, slog_device,
                        _prepare_cache_device(sys, slog_device, consent2, first.run))

SetupSeparateCache(sys, l2arc_device, slog_device, consent1, consent2, run) ==
    PrepareSecond(sys, l2arc_device, slog_device, consent2,
                  _prepare_cache_device(sys, l2arc_device, consent1, run))

\* device.size in KiB.  The byte count of a device of 2 GiB or more is beyond
\* the 32-bit integers of TLC: such a device carries size_kib, its size in
\* whole KiB, in the place of size.
SizeKiB(device) ==
    IF "size_kib" \in DOMAIN device THEN device.size_kib ELSE device.size \div 1024

\* SlogSectors without the limit of 32 GiB.
SlogSectorsWithoutLimit(total_kib) == total_kib \div 5

\* slog_size // 512 for slog_size = min(int(total_size * 0.1), 32 * 1024**3),
\* for a total_size of total_kib * 1024 bytes: int(total_size * 0.1) is
\* (1024 * total_kib) // 10, which is below 32 * 1024**3 exactly when
\* total_kib // 10 is below 32 * 1024**2, and (1024 * total_kib) // 10 // 512
\* is total_kib // 5.
SlogSectors(total_kib) ==
    IF total_kib \div 10 < 32 * 1024 * 1024
    THEN total_kib \div 5
    ELSE 64 * 1024 * 1024

\* max_wait = 10
MaxWait == 10

\* The wait for the two partitions, for i in range(max_wait): check i comes
\* after i sleeps of one second, and delay is the number of seconds after
\* which both nodes exist under /dev.  The loop is left by break at the
\* first check that sees both nodes, or by the Exception after the sleep
\* that follows check max_wait - 1.
RECURSIVE WaitForPartitions(_, _)
WaitForPartitions(delay, i) ==
    IF delay <= i THEN [delay |-> delay, checks |-> i + 1, seen |-> TRUE]
    ELSE IF i = MaxWait - 1 THEN [delay |-> delay, checks |-> i + 1, seen |-> FALSE]
    ELSE WaitForPartitions(delay, i + 1)

\* AwaitPartitions without the Exception at the end of the wait.
AwaitPartitionsWithoutTimeout(poll, run) == run

\* What the wait leaves of the run: an Exception when the nodes were not seen.
AwaitPartitions(poll, run) ==
    IF run.raised \/ run.failed \/ poll.seen THEN run
    ELSE [run EXCEPT !.failed = TRUE]

\* except Exception: nothing leaves the function
CaughtAll(run) == [run EXCEPT !.failed = FALSE, !.raised = FALSE]

\* _setup_partitioned_cache from the new table to udevadm settle
Partitioned(sys, device, run) ==
    LET path == "/dev/" \o device.name
        r1 == IssueChecked(run, sys, device.name, <<"sgdisk", "--zap-all", path>>)
        r2 == IssueChecked(r1, sys, device.name,
                           <<"sgdisk", "-n",
                             "1:0:+" \o ToStr(SlogSectors(SizeKiB(device))), path>>)
        r3 == IssueChecked(r2, sys, device.name, <<"sgdisk", "-n", "2:0:0", path>>)
        r4 == IssueChecked(r3, sys, device.name, <<"sgdisk", "-c", "1:ZFS-SLOG", path>>)
        r5 == IssueChecked(r4, sys, device.name, <<"sgdisk", "-c", "2:ZFS-L2ARC", path>>)
        r6 == IssueChecked(r5, sys, device.name, <<"partprobe", path>>)
    IN  IssueChecked(r6, sys, device.name, <<"udevadm", "settle">>)

\* _setup_partitioned_cache from the wait to the end
AttachPartitions(sys, device, poll, partitioned) ==
    LET path == "/dev/" \o device.name
        p    == IF StartsWith(device.name, "nvme") THEN "p" ELSE ""
        r8 == AwaitPartitions(poll, partitioned)
        r9 == ZpoolAdd(sys, "log", device.name, path \o p \o "1", r8)
    IN  CaughtAll(ZpoolAdd(sys, "cache", device.name, path \o p \o "2", r9))

\* _setup_partitioned_cache, once the device is prepared: [run, poll], poll
\* being the wait when the function got that far.
PartitionAndAttach(sys, device, delay, partitioned) ==
    IF partitioned.raised \/ partitioned.failed
    THEN [run |-> CaughtAll(partitioned), poll |-> NoPoll]
    ELSE [run  |-> AttachPartitions(sys, device, WaitForPartitions(delay, 0), partitioned),
          poll |-> WaitForPartitions(delay, 0)]

\* _setup_partitioned_cache after _prepare_cache_device
PartitionPrepared(sys, device, delay, prepared) ==
    IF ~prepared.ok THEN [run |-> prepared.run, poll |-> NoPoll]
    ELSE PartitionAndAttach(sys, device, delay,
                            Partitioned(sys, device, prepared.run))

\* SetupPartitionedCache without the check of the size.
SetupPartitionedCacheOfAnySize(sys, device, consent, delay, run) ==
    PartitionPrepared(sys, device, delay,
                      _prepare_cache_device(sys, device, consent, run))

\* _setup_partitioned_cache, once the device is chosen
SetupPartitionedCache(sys, device, consent, delay, run) ==
    IF SizeKiB(device) < 4 * 1024 * 1024 THEN [run |-> run, poll |-> NoPoll]
    ELSE PartitionPrepared(sys, device, delay,
                           _prepare_cache_device(sys, device, consent, run))

-----------------------------------------------------------------------------
(* The wizard as a state machine.  pc is the prompt or step the program is *)
(* at; "done" and "failed" are the two ways create_raid_wizard is left     *)
(* (by returning, or by the exception that _configure_raid re-raises).     *)

ThisHost == Host(blockdevices, storage, faults)

\* A run that starts with the commands logged so far on the host as it is.
Running == Run(cmds, World(blockdevices, mounts, storage))

\* The permission check, then step 1: the inventory and the disks on offer.
\* sudo_ok is the result of check_sudo, answer the reply to "continue anyway?".
StartWizard ==
    /\ pc = "wizard"
    /\ \E sudo_ok \in BOOLEAN, answer \in BOOLEAN :
          IF ~faults.is_root /\ ~sudo_ok /\ ~answer
          THEN /\ pc' = "done"
               /\ UNCHANGED <<system_disks, disks, available_disks>>
          ELSE /\ system_disks' = _get_system_disks(mounts, findmnt_fail)
               /\ disks' = detect_disks(blockdevices, mounts, findmnt_fail)
               /\ available_disks' = AvailableDisks(disks')
               /\ pc' = IF available_disks' = <<>> THEN "done" ELSE "filesystem"
    /\ UNCHANGED <<host_vars, fs_type, selected_disks, raid_type, capacity_info,
                   clean_index, last_disk_info, partition_poll, confirmed, cmds, cache_devices>>

\* Step 2: _select_filesystem_type
SelectFilesystemType ==
    /\ pc = "filesystem"
    /\ fs_type' \in {"zfs", "btrfs"}
    /\ selected_disks' = <<>>
    /\ pc' = "select"
    /\ UNCHANGED <<host_vars, system_disks, disks, available_disks, raid_type,
                   capacity_info, clean_index, last_disk_info, partition_poll,
                   confirmed, cmds, cache_devices>>

\* Step 3, _select_disks: a number is entered
ToggleDisk ==
    /\ pc = "select"
    /\ \E disk_index \in DOMAIN available_disks :
          selected_disks' = Toggle(selected_disks, available_disks[disk_index])
    /\ UNCHANGED <<pc, host_vars, system_disks, disks, available_disks, fs_type,
                   raid_type, capacity_info, clean_index, last_disk_info,
                   partition_poll, confirmed, cmds, cache_devices>>

\* Step 3, _select_disks: 'c' with two disks or more; when a chosen disk
\* carries data the warning must be accepted, otherwise the prompt returns.
ContinueSelection ==
    /\ pc = "select"
    /\ Len(selected_disks) >= 2
    /\ \E answer \in BOOLEAN :
          pc' = IF DisksWithData(selected_disks) # <<>> /\ ~answer
                THEN "select" ELSE "raid_type"
    /\ UNCHANGED <<host_vars, system_disks, disks, available_disks, fs_type,
                   selected_disks, raid_type, capacity_info, clean_index,
                   last_disk_info, partition_poll, confirmed, cmds,
                   cache_devices>>

\* Step 3, _select_disks: 'q' returns the empty list and the wizard returns
CancelSelection ==
    /\ pc = "select"
    /\ selected_disks' = <<>>
    /\ pc' = "done"
    /\ UNCHANGED <<host_vars, system_disks, disks, available_disks, fs_type,
                   raid_type, capacity_info, clean_index, last_disk_info,
                   partition_poll, confirmed, cmds, cache_devices>>

\* Step 4, _select_raid_type, and for a level step 5 up to the confirmation;
\* "0" goes back to a fresh _select_disks.
SelectRaidType ==
    /\ pc = "raid_type"
    /\ \E choice \in _select_raid_type(fs_type, Len(selected_disks)) :
          IF choice = None
          THEN /\ selected_disks' = <<>>
               /\ pc' = "select"
               /\ UNCHANGED <<raid_type, capacity_info>>
          ELSE /\ raid_type' = choice
               /\ capacity_info' = _calculate_raid_capacity(choice, selected_disks)
               /\ pc' = "confirm"
               /\ UNCHANGED selected_disks
    /\ UNCHANGED <<host_vars, system_disks, disks, available_disks, fs_type,
                   clean_index, last_disk_info, partition_poll, confirmed, cmds, cache_devices>>

\* The final confirmation with the teardown of the first member before the
\* answer is looked at.
ConfirmAfterCleaning ==
    /\ pc = "confirm"
    /\ \E answer \in BOOLEAN :
          /\ cmds' = CleanOneDisk(ThisHost, selected_disks[1].name, Running).log
          /\ pc' = IF answer THEN "clean" ELSE "done"
    /\ UNCHANGED <<host_vars, system_disks, disks, available_disks, fs_type,
                   selected_disks, raid_type, capacity_info, clean_index, last_disk_info,
                   partition_poll, confirmed, cache_devices>>

\* Step 5: the final confirmation; yes enters _configure_raid
ConfirmCreation ==
    /\ pc = "confirm"
    /\ \E answer \in BOOLEAN : pc' = IF answer THEN "clean" ELSE "done"
    /\ UNCHANGED <<host_vars, system_disks, disks, available_disks, fs_type,
                   selected_disks, raid_type, capacity_info, clean_index,
                   last_disk_info, partition_poll, confirmed, cmds,
                   cache_devices>>

\* AfterRun that goes on to the next step after an exception too.
AfterRunIgnoringExceptions(run, next_pc) ==
    /\ cmds' = run.log
    /\ blockdevices' = run.world.devices
    /\ mounts' = run.world.mounts
    /\ storage' = run.world.store
    /\ pc' = next_pc

\* How a step of _configure_raid ends: at the step that follows, or with the
\* exception that _configure_raid re-raises.
AfterRun(run, next_pc) ==
    /\ cmds' = run.log
    /\ blockdevices' = run.world.devices
    /\ mounts' = run.world.mounts
    /\ storage' = run.world.store
    /\ pc' = IF run.raised \/ run.failed THEN "failed" ELSE next_pc

\* Step 6, _clean_disks: the loop body for the next member
CleanDisk ==
    /\ pc = "clean"
    /\ clean_index < Len(selected_disks)
    /\ AfterRun(CleanOneDisk(ThisHost, selected_disks[clean_index + 1].name,
                              Running),
                IF clean_index + 1 = Len(selected_disks) THEN "create" ELSE "clean")
    /\ clean_index' = clean_index + 1
    /\ last_disk_info' = _analyze_disk_configuration(ThisHost,
                                                      selected_disks[clean_index + 1].name)
    /\ UNCHANGED <<fixed_vars, system_disks, disks, available_disks, fs_type,
                   selected_disks, raid_type, capacity_info, partition_poll, confirmed,
                   cache_devices>>

\* Step 6: _create_zfs_raid up to the cache planner, or _create_btrfs_raid
CreateRaid ==
    /\ pc = "create"
    /\ \E consent \in BOOLEAN :
          IF fs_type = "zfs"
          THEN AfterRun(_create_zfs_raid(faults, raid_type, selected_disks,
                                         Running),
                        "cache")
          ELSE AfterRun(_create_btrfs_raid(faults, raid_type, selected_disks, consent,
                                           Running),
                        "automount")
    /\ UNCHANGED <<fixed_vars, system_disks, disks, available_disks, fs_type,
                   selected_disks, raid_type, capacity_info, clean_index,
                   last_disk_info, partition_poll, confirmed,
                   cache_devices>>

\* _configure_cache_devices: the candidates from a fresh inventory, and the
\* question whether to configure any
ConfigureCacheDevices ==
    /\ pc = "cache"
    /\ cache_devices' = _detect_cache_devices(
                            ThisHost, detect_disks(blockdevices, mounts, findmnt_fail),
                            selected_disks)
    /\ \E answer \in BOOLEAN :
          pc' = IF (cache_devices'.nvme = <<>> /\ cache_devices'.ssd = <<>>) \/ ~answer
                THEN "automount" ELSE "cache_menu"
    /\ UNCHANGED <<host_vars, system_disks, disks, available_disks, fs_type,
                   selected_disks, raid_type, capacity_info, clean_index,
                   last_disk_info, partition_poll, confirmed, cmds>>

\* How a handler of the cache menu ends: back in _configure_raid, or with
\* the exception that went through it.
AfterCachePolled(run, candidates, poll) ==
    /\ AfterRun(run, "automount")
    /\ cache_devices' = candidates
    /\ partition_poll' = poll
    /\ UNCHANGED <<fixed_vars, system_disks, disks, available_disks, fs_type,
                   selected_disks, raid_type, capacity_info, clean_index,
                   last_disk_info>>

AfterCacheWith(run, candidates) == AfterCachePolled(run, candidates, partition_poll)

AfterCache(run) == AfterCacheWith(run, cache_devices)

\* _select_cache_device: a single candidate is returned when the confirm
\* that names it is answered with yes; one of several is picked by number.
SelectionConfirms(candidates, device) ==
    IF device # NoDisk /\ Len(candidates.nvme \o candidates.ssd) = 1
    THEN {device.name} ELSE {}

\* _prepare_cache_device: the confirm for a device with partitions or a
\* filesystem
PrepareConfirms(device, consent) ==
    IF device # NoDisk /\ (device.has_partitions \/ device.filesystem_type # "") /\ consent
    THEN {device.name} ELSE {}

\* _show_cache_menu: "0"
SkipCache ==
    /\ pc = "cache_menu"
    /\ AfterCache(Running)
    /\ UNCHANGED confirmed

\* _show_cache_menu: "1", _setup_l2arc_only
SetupL2arcOnly ==
    /\ pc = "cache_menu"
    /\ \E device \in _select_cache_device(cache_devices), consent \in BOOLEAN :
          /\ AfterCache(SetupSingleCache(faults, "cache", device, consent,
                                         Running))
          /\ confirmed' = confirmed \cup SelectionConfirms(cache_devices, device)
                                    \cup PrepareConfirms(device, consent)

\* _show_cache_menu: "2", _setup_slog_only
SetupSlogOnly ==
    /\ pc = "cache_menu"
    /\ \E device \in _select_cache_device(cache_devices), consent \in BOOLEAN :
          /\ AfterCache(SetupSingleCache(faults, "log", device, consent,
                                         Running))
          /\ confirmed' = confirmed \cup SelectionConfirms(cache_devices, device)
                                    \cup PrepareConfirms(device, consent)

\* _show_cache_menu: "3", _setup_separate_cache_devices; the device chosen
\* for L2ARC is taken out of the candidates.  The second device is prepared,
\* and its confirm shown, when the first has been.
SetupSeparateCacheDevices ==
    /\ pc = "cache_menu"
    /\ IF Len(cache_devices.nvme) + Len(cache_devices.ssd) < 2
       THEN AfterCache(Running) /\ UNCHANGED confirmed
       ELSE \E l2arc_device \in _select_cache_device(cache_devices),
               consent1 \in BOOLEAN, consent2 \in BOOLEAN :
               IF l2arc_device = NoDisk
               THEN AfterCache(Running) /\ UNCHANGED confirmed
               ELSE \E slog_device \in _select_cache_device(
                                          WithoutDevice(cache_devices, l2arc_device)) :
                       IF slog_device = NoDisk
                       THEN /\ AfterCacheWith(Running,
                                              WithoutDevice(cache_devices, l2arc_device))
                            /\ UNCHANGED confirmed
                       ELSE /\ AfterCacheWith(
                                   SetupSeparateCache(faults, l2arc_device, slog_device,
                                                      consent1, consent2, Running),
                                   WithoutDevice(cache_devices, l2arc_device))
                            /\ confirmed' =
                                   confirmed
                                   \cup SelectionConfirms(
                                            WithoutDevice(cache_devices, l2arc_device),
                                            slog_device)
                                   \cup PrepareConfirms(l2arc_device, consent1)
                                   \cup (IF _prepare_cache_device(faults, l2arc_device,
                                                                  consent1, Running).ok
                                         THEN PrepareConfirms(slog_device, consent2)
                                         ELSE {})

\* The seconds udev may take to create the two nodes: at once, within the
\* wait, during its last sleep, and later.
PartitionDelays == {0, 1, MaxWait - 1, MaxWait, MaxWait + 5}

\* _show_cache_menu: "4", _setup_partitioned_cache
SetupPartitionedCacheDevice ==
    /\ pc = "cache_menu"
    /\ \E device \in _select_cache_device(cache_devices),
          consent \in BOOLEAN, delay \in PartitionDelays :
          IF device = NoDisk
          THEN AfterCache(Running) /\ UNCHANGED confirmed
          ELSE \E done \in {SetupPartitionedCache(faults, device, consent, delay,
                                                  Running)} :
                  /\ AfterCachePolled(done.run, cache_devices, done.poll)
                  /\ confirmed' =
                         confirmed
                         \cup SelectionConfirms(cache_devices, device)
                         \cup (IF SizeKiB(device) < 4 * 1024 * 1024 THEN {}
                               ELSE PrepareConfirms(device, consent))

\* _configure_auto_mount and _show_final_summary: services are enabled for
\* ZFS, the first member is looked up and /etc/fstab is edited for BTRFS;
\* nothing is written to a disk, and the commands are not logged.
ConfigureAutoMount ==
    /\ pc = "automount"
    /\ pc' = "done"
    /\ UNCHANGED <<host_vars, system_disks, disks, available_disks, fs_type,
                   selected_disks, raid_type, capacity_info, clean_index,
                   last_disk_info, partition_poll, confirmed, cmds,
                   cache_devices>>

-----------------------------------------------------------------------------
(* The hosts the wizard is run on.                                         *)

WizardRoots == {"sda2"}

WizardMounts == {<<"nvme1n1p3", "/mnt/data">>}

WizardFeatures == {{}, StorageFeatures}

\* A host on which nothing goes wrong, and one where the program is not
\* root, sgdisk is not installed and one mount is busy.
SomeFaults ==
    [is_root |-> FALSE, missing |-> {"sgdisk"}, failing |-> {},
     busy |-> {"/mnt/data"}]

WizardFaults == {NoFaults, SomeFaults}

Init ==
    /\ pc = "wizard"
    /\ \E root \in WizardRoots, extra \in WizardMounts, features \in WizardFeatures :
          /\ mounts = StorageMountTable(root, extra, features, TRUE)
          /\ blockdevices = BlockDevices(StorageMountTable(root, extra, features, TRUE),
                                         Members(features), "0B", "loop")
          /\ storage = Storage(features, TRUE)
    /\ findmnt_fail = {}
    /\ exclude_disks = DefaultExcludeDisks
    /\ faults \in WizardFaults
    /\ system_disks = {}
    /\ disks = <<>>
    /\ selected_disks = <<>>
    /\ raid_type = "none"
    /\ capacity_info = NoReport
    /\ IdleWizard

Next ==
    \/ StartWizard
    \/ SelectFilesystemType
    \/ ToggleDisk
    \/ ContinueSelection
    \/ CancelSelection
    \/ SelectRaidType
    \/ ConfirmCreation
    \/ CleanDisk
    \/ CreateRaid
    \/ ConfigureCacheDevices
    \/ SkipCache
    \/ SetupL2arcOnly
    \/ SetupSlogOnly
    \/ SetupSeparateCacheDevices
    \/ SetupPartitionedCacheDevice
    \/ ConfigureAutoMount

Spec == Init /\ [][Next]_vars

-----------------------------------------------------------------------------
(* The teardown on its own: _clean_disks entered with a selection of the   *)
(* wizard, on hosts with every kind of residue and of failing command.     *)

TeardownMounts ==
    {NoMount, <<"nvme1n1p3", "/mnt/data">>, <<"sdb1", "/mnt/data">>,
     <<"mmcblk1p1", "/home">>}

TeardownFeatures ==
    {{}, {"zfs"}, {"btrfs"}, {"md"}, {"lvm"}, {"zfs", "btrfs"}, StorageFeatures}

TeardownFaults ==
    {NoFaults, SomeFaults,
     [is_root |-> TRUE, missing |-> {"mdadm"}, failing |-> {}, busy |-> {}],
     [is_root |-> FALSE, missing |-> {"zpool"}, failing |-> {"umount", "findmnt"},
      busy |-> {}],
     [is_root |-> TRUE, missing |-> {}, failing |-> {"zpool", "sgdisk", "lsblk"},
      busy |-> {"/mnt/btr"}]}

\* The selections of two disks or more, in the order of the inventory.
Selections(offered) ==
    {SelectSeq(offered, LAMBDA d : d.name \in names) :
        names \in {chosen \in SUBSET {offered[i].name : i \in DOMAIN offered} :
                     Cardinality(chosen) >= 2}}

InitTeardown ==
    /\ pc = "clean"
    /\ \E extra \in TeardownMounts, features \in TeardownFeatures,
          btrfs_mounted \in BOOLEAN :
          /\ mounts = StorageMountTable("sda2", extra, features, btrfs_mounted)
          /\ blockdevices =
                BlockDevices(StorageMountTable("sda2", extra, features, btrfs_mounted),
                             Members(features), "0B", "loop")
          /\ storage = Storage(features, btrfs_mounted)
    /\ findmnt_fail = {}
    /\ exclude_disks = DefaultExcludeDisks
    /\ faults \in TeardownFaults
    /\ system_disks = _get_system_disks(mounts, findmnt_fail)
    /\ disks = detect_disks(blockdevices, mounts, findmnt_fail)
    /\ available_disks = AvailableDisks(disks)
    /\ fs_type = "zfs"
    /\ selected_disks \in Selections(available_disks)
    /\ raid_type = "stripe"
    /\ capacity_info = _calculate_raid_capacity(raid_type, selected_disks)
    /\ clean_index = 0
    /\ last_disk_info = NoInfo
    /\ partition_poll = NoPoll
    /\ confirmed = {}
    /\ cmds = <<>>
    /\ cache_devices = NoCandidates

NextTeardown == CleanDisk

SpecTeardown == InitTeardown /\ [][NextTeardown]_vars

-----------------------------------------------------------------------------
(* The analyzer inside the teardown: _clean_disks on two members, on hosts *)
(* where any of the five probes fails and where arrays and pools exist     *)
(* that a member is no active part of.                                     *)

AnalysisFeatures ==
    {{}, StorageFeatures, {"md_whole"}, {"md_inactive"},
     {"md_lookalike", "zfs_lookalike"},
     StorageFeatures \cup {"md_whole", "md_inactive", "md_lookalike", "zfs_lookalike"}}

\* The commands of the five probes.
AnalyzerProbes == {"lsblk", "zpool", "btrfs", "cat", "pvs"}

\* Any of the queries exits non-zero, or the tools are not installed.
AnalysisFaults ==
    {[is_root |-> TRUE, missing |-> {}, failing |-> failing, busy |-> {}] :
        failing \in SUBSET AnalyzerProbes}
    \cup {[is_root |-> FALSE, missing |-> {"zpool", "btrfs", "pvs"}, failing |-> {},
           busy |-> {}]}

\* lsblk draws a running array below the device it is built on.
WithHolders(devices, features) ==
    [i \in DOMAIN devices |->
        IF devices[i].name = "sdc" /\ "md_whole" \in features
        THEN [devices[i] EXCEPT
                !.children = Append(@, [name |-> "md1", mountpoint |-> "",
                                        fstype |-> ""])]
        ELSE devices[i]]

InitAnalysis ==
    /\ pc = "clean"
    /\ \E features \in AnalysisFeatures :
          /\ mounts = StorageMountTable("sda2", NoMount, features, TRUE)
          /\ blockdevices =
                WithHolders(BlockDevices(StorageMountTable("sda2", NoMount, features,
                                                          TRUE),
                                         Members(features), "128M", "loop"),
                            features)
          /\ storage = Storage(features, TRUE)
    /\ findmnt_fail = {}
    /\ exclude_disks = DefaultExcludeDisks
    /\ faults \in AnalysisFaults
    /\ system_disks = _get_system_disks(mounts, findmnt_fail)
    /\ disks = detect_disks(blockdevices, mounts, findmnt_fail)
    /\ available_disks = AvailableDisks(disks)
    /\ fs_type = "zfs"
    /\ selected_disks \in {chosen \in Selections(available_disks) : Len(chosen) = 2}
    /\ raid_type = "stripe"
    /\ capacity_info = _calculate_raid_capacity(raid_type, selected_disks)
    /\ clean_index = 0
    /\ last_disk_info = NoInfo
    /\ partition_poll = NoPoll
    /\ confirmed = {}
    /\ cmds = <<>>
    /\ cache_devices = NoCandidates

NextAnalysis == CleanDisk

SpecAnalysis == InitAnalysis /\ [][NextAnalysis]_vars

\* A command that wipes the disk it is run for or changes its partition table.
Mutates(c) == c.disk # "" /\ (ErasesTable(c.argv) \/ c.argv[1] = "sgdisk")

\* Between the commands m and j the kernel was made to read the partition
\* table of the disk again and udev was waited for.
SettledBetween(m, j, disk_name) ==
    \E k \in (m + 1)..(j - 1), l \in (m + 1)..(j - 1) :
        /\ k < l
        /\ cmds[k].argv = <<"partprobe", "/dev/" \o disk_name>>
        /\ cmds[l].argv = <<"udevadm", "settle">>

\* C18: zpool create is issued only after every member was wiped and the
\* wipe was followed by partprobe and udevadm settle; zpool add of a cache or
\* log device only after the partprobe and udevadm settle that follow the
\* last wipe or partition-table change of that device.
C18_SettledBeforeDependentStep ==
    \A j \in DOMAIN cmds :
        /\ (cmds[j].argv[1] = "zpool" /\ cmds[j].argv[2] = "create") =>
              \A d \in DOMAIN selected_disks :
                  /\ \E m \in 1..(j - 1) :
                        cmds[m].disk = selected_disks[d].name /\ Mutates(cmds[m])
                  /\ \A m \in 1..(j - 1) :
                        (cmds[m].disk = selected_disks[d].name /\ Mutates(cmds[m]))
                            => SettledBetween(m, j, selected_disks[d].name)
        /\ (cmds[j].argv[1] = "zpool" /\ cmds[j].argv[2] = "add") =>
              \A m \in 1..(j - 1) :
                  (cmds[m].disk = cmds[j].disk /\ Mutates(cmds[m]))
                      => SettledBetween(m, j, cmds[j].disk)

-----------------------------------------------------------------------------
(* _configure_raid from the teardown to the creation: _clean_disks on the  *)
(* selection, then _create_zfs_raid or _create_btrfs_raid, on hosts where  *)
(* a tool is missing for a program that runs as root.                      *)

BatchFaults ==
    {NoFaults, SomeFaults,
     [is_root |-> TRUE, missing |-> {"mdadm"}, failing |-> {}, busy |-> {}]}

InitBatch ==
    /\ pc = "clean"
    /\ \E features \in WizardFeatures :
          /\ mounts = StorageMountTable("sda2", NoMount, features, TRUE)
          /\ blockdevices =
                BlockDevices(StorageMountTable("sda2", NoMount, features, TRUE),
                             Members(features), "0B", "loop")
          /\ storage = Storage(features, TRUE)
    /\ findmnt_fail = {}
    /\ exclude_disks = DefaultExcludeDisks
    /\ faults \in BatchFaults
    /\ system_disks = _get_system_disks(mounts, findmnt_fail)
    /\ disks = detect_disks(blockdevices, mounts, findmnt_fail)
    /\ available_disks = AvailableDisks(disks)
    /\ fs_type \in {"zfs", "btrfs"}
    /\ selected_disks \in Selections(available_disks)
    /\ raid_type = (IF fs_type = "zfs" THEN "stripe" ELSE "btrfs_raid0")
    /\ capacity_info = _calculate_raid_capacity(raid_type, selected_disks)
    /\ clean_index = 0
    /\ last_disk_info = NoInfo
    /\ partition_poll = NoPoll
    /\ confirmed = {}
    /\ cmds = <<>>
    /\ cache_devices = NoCandidates

NextBatch == CleanDisk \/ CreateRaid

SpecBatch == InitBatch /\ [][NextBatch]_vars

-----------------------------------------------------------------------------
(* _setup_partitioned_cache on its own: the cache menu after the pool has  *)
(* been created on blank members, with an NVMe and an SSD candidate, one   *)
(* of them of any of the sizes below and blank or in use.                  *)

KiBPerGiB == 1024 * 1024

\* The sizes of the candidate in KiB: whole GiB on both sides of the minimum
\* of 4 GiB and of 320 GiB, where 10% reaches 32 GiB, and a remainder that
\* makes 10% a fraction of a sector.
CacheDeviceGiB == {1, 3, 4, 5, 8, 40, 100, 319, 320, 321, 500, 1000}

CacheDeviceOddKiB == {0, 1, 4, 5, KiBPerGiB - 1}

CacheDeviceSizes == {g * KiBPerGiB + odd : g \in CacheDeviceGiB, odd \in CacheDeviceOddKiB}

\* A disk of 1 GiB or more: blank, or in use with a partition that is
\* mounted on /mnt/cache.
LargeDisk(name, size_kib, in_use) ==
    [name |-> name, size_kib |-> size_kib, is_system |-> FALSE,
     has_partitions |-> in_use, filesystem_type |-> "",
     mount_points |-> IF in_use THEN <<"/mnt/cache">> ELSE <<>>]

\* The partition of a disk: nvme2n1p1, sdf1
FirstPartition(name) == name \o (IF StartsWith(name, "nvme") THEN "p1" ELSE "1")

\* _clean_disks: for disk in selected_disks
RECURSIVE CleanedDisks(_, _, _)
CleanedDisks(flts, members, run) ==
    IF members = <<>> \/ run.raised \/ run.failed THEN run
    ELSE CHOOSE done \in
             {CleanedDisks(flts, Tail(members), cleaned) :
                 cleaned \in {CleanOneDisk(Host(run.world.devices, run.world.store, flts),
                                           Head(members).name, run)}} : TRUE

\* The cache menu is reached through _configure_raid: here for a stripe on
\* the first two disks on offer of a host without storage.
InitPartition ==
    /\ pc = "cache_menu"
    /\ findmnt_fail = {}
    /\ exclude_disks = DefaultExcludeDisks
    /\ faults = NoFaults
    /\ fs_type = "zfs"
    /\ raid_type = "stripe"
    /\ \E mnts \in {StorageMountTable("sda2", NoMount, {}, TRUE)} :
       \E devices \in {BlockDevices(mnts, Members({}), "0B", "loop")} :
       \E members \in {SubSeq(AvailableDisks(detect_disks(devices, mnts, {})), 1, 2)} :
       \E cleaned \in {CleanedDisks(NoFaults, members,
                                    Run(<<>>, World(devices, mnts, Storage({}, TRUE))))} :
       \E created \in {_create_zfs_raid(NoFaults, "stripe", members, cleaned)} :
       \E name \in {"nvme2n1", "sdf"}, size_kib \in CacheDeviceSizes, in_use \in BOOLEAN :
          /\ ~(created.raised \/ created.failed)
          /\ selected_disks = members
          /\ mounts = created.world.mounts
                       \o (IF in_use
                           THEN << <<"/dev/" \o FirstPartition(name), "/mnt/cache">> >>
                           ELSE <<>>)
          /\ blockdevices = created.world.devices
          /\ storage = created.world.store
          /\ cmds = created.log
          /\ cache_devices =
                [nvme  |-> <<LargeDisk("nvme2n1",
                                       IF name = "nvme2n1" THEN size_kib ELSE 8 * KiBPerGiB,
                                       in_use /\ name = "nvme2n1")>>,
                 ssd   |-> <<LargeDisk("sdf",
                                       IF name = "sdf" THEN size_kib ELSE 8 * KiBPerGiB,
                                       in_use /\ name = "sdf")>>,
                 other |-> <<>>]
    /\ system_disks = _get_system_disks(mounts, findmnt_fail)
    /\ disks = detect_disks(blockdevices, mounts, findmnt_fail)
    /\ available_disks = AvailableDisks(disks)
    /\ capacity_info = _calculate_raid_capacity(raid_type, selected_disks)
    /\ clean_index = Len(selected_disks)
    /\ last_disk_info = _analyze_disk_configuration(
                            ThisHost, selected_disks[Len(selected_disks)].name)
    /\ partition_poll = NoPoll
    /\ confirmed = {}

NextPartition == SetupPartitionedCacheDevice

SpecPartition == InitPartition /\ [][NextPartition]_vars

-----------------------------------------------------------------------------
(* The full wipe on disks of any size: _clean_disks on sdb, of a size on   *)
(* either side of 100 MiB, and on sdc, of 100 MiB, both with a partition.  *)

MiB == 1048576

WipeMiB == {1, 64, 99, 100, 101, 150, 199, 200, 201, 500, 900}

WipeOddBytes == {0, 1, 512, MiB - 1}

\* The sizes of sdb in bytes, as lsblk prints them.
WipeSizes == {ToStr(m * MiB + odd) : m \in WipeMiB, odd \in WipeOddBytes}

\* A host on which nothing goes wrong, one where the query of the size
\* exits non-zero, and one where sgdisk is not installed.
WipeFaults ==
    {NoFaults,
     [is_root |-> TRUE, missing |-> {}, failing |-> {"lsblk --bytes"}, busy |-> {}],
     [is_root |-> FALSE, missing |-> {"sgdisk"}, failing |-> {}, busy |-> {}]}

InitWipe ==
    /\ pc = "clean"
    /\ mounts = MountTable("sda2", NoMount)
    /\ \E size \in WipeSizes :
          blockdevices =
             << Device(MountTable("sda2", NoMount), {}, "sda", "128M", "disk", <<"1", "2">>),
                Device(MountTable("sda2", NoMount), {}, "sdb", size, "disk", <<"1">>),
                Device(MountTable("sda2", NoMount), {}, "sdc", "100M", "disk", <<"1">>) >>
    /\ storage = Storage({}, FALSE)
    /\ findmnt_fail = {}
    /\ exclude_disks = DefaultExcludeDisks
    /\ faults \in WipeFaults
    /\ system_disks = _get_system_disks(mounts, findmnt_fail)
    /\ disks = detect_disks(blockdevices, mounts, findmnt_fail)
    /\ available_disks = AvailableDisks(disks)
    /\ fs_type = "zfs"
    /\ selected_disks = available_disks
    /\ raid_type = "stripe"
    /\ capacity_info = _calculate_raid_capacity(raid_type, selected_disks)
    /\ clean_index = 0
    /\ last_disk_info = NoInfo
    /\ partition_poll = NoPoll
    /\ confirmed = {}
    /\ cmds = <<>>
    /\ cache_devices = NoCandidates

NextWipe == CleanDisk

SpecWipe == InitWipe /\ [][NextWipe]_vars

-----------------------------------------------------------------------------
(* The cache planner on its own: _configure_cache_devices after the pool   *)
(* has been created on two of the disks of a host with three more blank    *)
(* disks, a solid-state one, a rotational one and an NVMe one.             *)

CacheHostDevices(mnts) ==
    BlockDevices(mnts, Members({}), "0B", "loop")
    \o << Device(mnts, {}, "sdf", "128M", "disk", <<>>),
          Device(mnts, {}, "sdg", "128M", "disk", <<>>),
          Device(mnts, {}, "nvme2n1", "64M", "disk", <<>>) >>

\* sdf is a solid-state disk: its rotational flag reads 0.
CacheHostStorage == [Storage({}, TRUE) EXCEPT !.ssd = @ \cup {"sdf"}]

\* A host on which nothing goes wrong, and one where the query of the
\* rotational flag of sdf exits non-zero.
CacheFaults ==
    {NoFaults,
     [is_root |-> TRUE, missing |-> {}, failing |-> {"lsblk /dev/sdf"}, busy |-> {}]}

\* The selections of exactly two disks.
MemberPairs(offered) == {pair \in Selections(offered) : Len(pair) = 2}

InitCache ==
    /\ pc = "cache"
    /\ findmnt_fail = {}
    /\ exclude_disks = DefaultExcludeDisks
    /\ faults \in CacheFaults
    /\ fs_type = "zfs"
    /\ raid_type = "stripe"
    /\ \E mnts \in {StorageMountTable("sda2", NoMount, {}, TRUE)} :
       \E devices \in {CacheHostDevices(mnts)} :
       \E members \in MemberPairs(AvailableDisks(detect_disks(devices, mnts, {}))) :
       \E cleaned \in {CleanedDisks(NoFaults, members,
                                    Run(<<>>, World(devices, mnts, CacheHostStorage)))} :
       \E created \in {_create_zfs_raid(NoFaults, "stripe", members, cleaned)} :
          /\ ~(created.raised \/ created.failed)
          /\ selected_disks = members
          /\ mounts = created.world.mounts
          /\ blockdevices = created.world.devices
          /\ storage = created.world.store
          /\ cmds = created.log
    /\ cache_devices = NoCandidates
    /\ system_disks = _get_system_disks(mounts, findmnt_fail)
    /\ disks = detect_disks(blockdevices, mounts, findmnt_fail)
    /\ available_disks = AvailableDisks(disks)
    /\ capacity_info = _calculate_raid_capacity(raid_type, selected_disks)
    /\ clean_index = Len(selected_disks)
    /\ last_disk_info = _analyze_disk_configuration(
                            ThisHost, selected_disks[Len(selected_disks)].name)
    /\ partition_poll = NoPoll
    /\ confirmed = {}

NextCache ==
    \/ ConfigureCacheDevices
    \/ SkipCache
    \/ SetupL2arcOnly
    \/ SetupSlogOnly
    \/ SetupSeparateCacheDevices
    \/ SetupPartitionedCacheDevice

SpecCache == InitCache /\ [][NextCache]_vars

-----------------------------------------------------------------------------
(* Claims about the partitioned cache (SpecPartition).  Partition sizes    *)
(* are counted in sectors of 512 bytes, the unit of sgdisk -n.             *)

\* The devices the cache menu offers.
OfferedForCache == _select_cache_device(cache_devices) \ {NoDisk}

\* The places in the log of the sgdisk -n commands on a device.
NewPartitionsOn(disk_name) ==
    {i \in DOMAIN cmds : /\ cmds[i].disk = disk_name
                         /\ Len(cmds[i].argv) = 4
                         /\ cmds[i].argv[1] = "sgdisk"
                         /\ cmds[i].argv[2] = "-n"}

\* 10% of a device and 32 GiB, in sectors.
TenthInSectors(size_kib) == (2 * size_kib) \div 10

LimitInSectors == 32 * KiBPerGiB * 2

WriteLogSectors(size_kib) == Min({TenthInSectors(size_kib), LimitInSectors})

\* C20: in partitioned cache mode a device below the minimum of 4 GiB is not
\* partitioned, and on a device at or above it partition 1, the write log,
\* is given min(10% of the device, 32 GiB), and partition 2, the read
\* cache, is created next and spans all the space that is left (2:0:0), so
\* that the two add up to the device but for alignment.
C20_WriteLogAndReadCacheSizes ==
    \A device \in OfferedForCache :
        /\ SizeKiB(device) < 4 * KiBPerGiB => NewPartitionsOn(device.name) = {}
        /\ \A i \in NewPartitionsOn(device.name) :
               \/ /\ cmds[i].argv[3] = "1:0:+" \o ToStr(WriteLogSectors(SizeKiB(device)))
                  /\ i + 1 \in NewPartitionsOn(device.name)
               \/ /\ cmds[i].argv[3] = "2:0:0"
                  /\ i - 1 \in NewPartitionsOn(device.name)
                  /\ cmds[i - 1].argv[3] # "2:0:0"

\* A device of 1000 GiB has been partitioned and attached: 32 GiB of write
\* log (67108864 sectors), the other 968 GiB read cache.
C20_Witness ==
    \E device \in OfferedForCache :
        /\ SizeKiB(device) = 1000 * KiBPerGiB
        /\ \E i \in NewPartitionsOn(device.name) :
               /\ cmds[i].argv[3] = "1:0:+67108864"
               /\ cmds[i + 1].argv[3] = "2:0:0"
        /\ \E j \in DOMAIN cmds :
               /\ cmds[j].disk = device.name
               /\ cmds[j].argv[1] = "zpool" /\ cmds[j].argv[2] = "add"
               /\ cmds[j].argv[4] = "cache"

\* The places in the log of the zpool add commands for a device.
AttachesOn(disk_name) ==
    {j \in DOMAIN cmds : /\ cmds[j].disk = disk_name
                         /\ cmds[j].argv[1] = "zpool"
                         /\ cmds[j].argv[2] = "add"}

\* C21: the wait for the two partition nodes makes at most 10 checks; when
\* the nodes are not there at any of the checks (they take 10 seconds or
\* more) neither partition is attached to the pool; and a zpool add is
\* issued only after a check that saw both nodes.
C21_BoundedWaitBeforeAttach ==
    /\ partition_poll.checks <= MaxWait
    /\ \A device \in OfferedForCache :
          /\ (partition_poll.checks > 0 /\ partition_poll.delay >= MaxWait)
                => AttachesOn(device.name) = {}
          /\ AttachesOn(device.name) # {}
                => /\ partition_poll.seen
                   /\ partition_poll.delay < partition_poll.checks

\* The device was partitioned, the nodes showed up during the last sleep of
\* the wait, and nothing was attached.
C21_Witness ==
    /\ partition_poll = [delay |-> MaxWait, checks |-> MaxWait, seen |-> FALSE]
    /\ \E device \in OfferedForCache :
          /\ NewPartitionsOn(device.name) # {}
          /\ AttachesOn(device.name) = {}

-----------------------------------------------------------------------------
(* Claims about the batch (SpecBatch).  run_command waits for each command *)
(* (subprocess.run), so the log is the order in which the commands ran and *)
(* returned.                                                               *)

IsMember(disk_name) ==
    \E d \in DOMAIN selected_disks : selected_disks[d].name = disk_name

\* The place of a member in the selection.
MemberIndex(disk_name) ==
    CHOOSE d \in DOMAIN selected_disks : selected_disks[d].name = disk_name

IsCreate(c) ==
    \/ c.argv[1] = "zpool" /\ c.argv[2] = "create"
    \/ c.argv[1] = "mkfs.btrfs"

\* The last command run for some member ended in an exception that is not
\* caught: the teardown of that member raised.
TeardownRaised ==
    \E m \in DOMAIN cmds :
        /\ IsMember(cmds[m].disk)
        /\ run_command(faults, cmds[m].argv) = "raise"
        /\ \A n \in (m + 1)..Len(cmds) : cmds[n].disk # cmds[m].disk

\* C19: the members are torn down one after the other in the order of the
\* selection, every command of one before the first command of the next;
\* the pool or filesystem is created only after the teardown of the last
\* member, and not at all when the teardown of a member raised.
C19_OneDiskAtATime ==
    /\ \A j \in DOMAIN cmds :
          IsMember(cmds[j].disk) =>
              /\ MemberIndex(cmds[j].disk) <= clean_index
              /\ \A i \in 1..(j - 1) :
                    IsMember(cmds[i].disk) =>
                        MemberIndex(cmds[i].disk) <= MemberIndex(cmds[j].disk)
    /\ \A j \in DOMAIN cmds :
          IsCreate(cmds[j]) =>
              /\ clean_index = Len(selected_disks)
              /\ \A m \in DOMAIN cmds : IsMember(cmds[m].disk) => m < j
    /\ TeardownRaised => \A j \in DOMAIN cmds : ~IsCreate(cmds[j])

\* Two members torn down, the first before the second, and then the create
\* command.
C19_Witness ==
    \E j \in DOMAIN cmds :
        /\ IsCreate(cmds[j])
        /\ \E i \in 1..(j - 1), k \in 1..(j - 1) :
              /\ i < k
              /\ IsMember(cmds[i].disk) /\ IsMember(cmds[k].disk)
              /\ MemberIndex(cmds[i].disk) < MemberIndex(cmds[k].disk)

-----------------------------------------------------------------------------
(* Claims about the analyzer (SpecAnalysis).  In a step of CleanDisk the   *)
(* unprimed variables are the host the analyzer reads and the primed       *)
(* last_disk_info is what it returns.                                      *)

\* The member that the next step of CleanDisk handles.
NextMember == selected_disks[clean_index + 1].name

\* CleanDisk takes a step and its analysis returns.
AnalysisReturns == clean_index' = clean_index + 1 /\ ~last_disk_info'.raised

\* The probe that runs this tool gets its answer.
Works(tool) == tool \notin faults.failing \cup faults.missing

\* The lines of a probe's output in which a text occurs.
Mentions(lines, text) == {i \in DOMAIN lines : Contains(lines[i], text)}

Collections ==
    {"partitions", "mounted_partitions", "zfs_pools", "btrfs_filesystems",
     "mdadm_arrays", "lvm_volumes"}

\* The probes show the disk in one line of an array and nowhere else.
OnlyInOneArray(name) ==
    /\ Works("cat")
    /\ Cardinality(Mentions(storage.mdstat, name)) = 1
    /\ \A i \in Mentions(storage.mdstat, name) : Contains(storage.mdstat[i], "active")
    /\ ~Works("lsblk") \/ Len(LsblkRows(blockdevices, name)) <= 1
    /\ ~Works("zpool") \/ Mentions(storage.zpool_status, name) = {}
    /\ ~Works("btrfs") \/ Mentions(storage.btrfs_show, "/dev/" \o name) = {}
    /\ ~Works("pvs") \/ Mentions(storage.pvs, "/dev/" \o name) = {}

\* C12: whatever the five probes answer, the analysis has has_data set
\* exactly when one of its six collections is not empty; a disk that the
\* probes show in one array line and in nothing else gives has_data with one
\* entry in mdadm_arrays and every other collection empty.
C12_HasDataIffFound ==
    [][AnalysisReturns =>
          /\ last_disk_info'.has_data
                <=> \E c \in Collections : last_disk_info'[c] # <<>>
          /\ OnlyInOneArray(NextMember) =>
                /\ last_disk_info'.has_data
                /\ Len(last_disk_info'.mdadm_arrays) = 1
                /\ \A c \in Collections \ {"mdadm_arrays"} :
                      last_disk_info'[c] = <<>>]_vars

\* sdc analysed while lsblk fails: found in the array md1 alone.
C12_Witness ==
    /\ clean_index > 0
    /\ selected_disks[clean_index].name = "sdc"
    /\ "lsblk" \in faults.failing
    /\ last_disk_info.has_data
    /\ last_disk_info.mdadm_arrays = <<"md1">>
    /\ \A c \in Collections \ {"mdadm_arrays"} : last_disk_info[c] = <<>>

\* device is the disk itself or one of its numbered partitions
IsPartOf(device, disk_name) ==
    \/ device = disk_name
    \/ /\ StartsWith(device, disk_name)
       /\ LET rest   == SubSeq(device, Len(disk_name) + 1, Len(device))
              number == IF StartsWith(rest, "p") THEN SubSeq(rest, 2, Len(rest))
                        ELSE rest
          IN  number # "" /\ IsDigits(number)

\* The commands that the step of CleanDisk adds to the log.
IssuedInStep == {cmds'[k] : k \in (Len(cmds) + 1)..Len(cmds')}

\* A line of /proc/mdstat that describes a running array: <name> : active ...
IsActiveArrayLine(line) ==
    Len(Words(line)) >= 3 /\ Words(line)[2] = ":" /\ Words(line)[3] = "active"

\* Its components, each written <device>[<slot>].
Components(line) == {SplitHead(Words(line)[k], "[") : k \in 4..Len(Words(line))}

\* The running arrays that have the disk or a partition of it as a component.
ActiveArraysOf(lines, disk_name) ==
    {Words(lines[i])[1] :
        i \in {j \in DOMAIN lines :
                 /\ IsActiveArrayLine(lines[j])
                 /\ \E device \in Components(lines[j]) : IsPartOf(device, disk_name)}}

\* C13: mdadm_arrays holds an array exactly when the disk is a component of
\* an active array line of /proc/mdstat (a line of an inactive array, or one
\* that holds the name inside another device name, adds nothing), and the
\* teardown of the disk stops no other array.
C13_ArraysOfActiveMembersOnly ==
    [][(AnalysisReturns /\ Works("cat")) =>
          /\ Range(last_disk_info'.mdadm_arrays)
                = ActiveArraysOf(storage.mdstat, NextMember)
          /\ \A c \in IssuedInStep :
                (c.argv[1] = "mdadm" /\ c.argv[2] = "--stop") =>
                    LastSegment(c.argv[3]) \in ActiveArraysOf(storage.mdstat, NextMember)
      ]_vars

\* The pool each line of `zpool status` belongs to, "" before the first.
PoolOfLine(lines, i) ==
    LET heads == {j \in 1..i : StartsWith(Strip(lines[j]), "pool:")}
    IN  IF heads = {} THEN ""
        ELSE Strip(SplitSecond(lines[CHOOSE j \in heads : \A k \in heads : k <= j],
                               "pool:"))

\* A row of the device tree of a pool: <device> <state> <read> <write> <cksum>
IsDeviceRow(line) ==
    /\ Len(Words(line)) = 5
    /\ Words(line)[2] \in {"ONLINE", "DEGRADED", "FAULTED", "OFFLINE", "UNAVAIL",
                            "REMOVED"}

\* The pools that have the disk or a partition of it in their device tree.
PoolsOf(lines, disk_name) ==
    {PoolOfLine(lines, i) :
        i \in {j \in DOMAIN lines :
                 IsDeviceRow(lines[j]) /\ IsPartOf(Words(lines[j])[1], disk_name)}}

\* C14: zfs_pools holds a pool exactly when the disk or one of its numbered
\* partitions is a device of the pool's tree in `zpool status` (the name
\* inside another device's name records nothing), and the teardown of the
\* disk exports and destroys no other pool.
C14_PoolsOfMembersOnly ==
    [][(AnalysisReturns /\ Works("zpool")) =>
          /\ Range(last_disk_info'.zfs_pools) = PoolsOf(storage.zpool_status, NextMember)
          /\ \A c \in IssuedInStep :
                (c.argv[1] = "zpool" /\ c.argv[2] \in {"export", "destroy"}) =>
                    c.argv[Len(c.argv)] \in PoolsOf(storage.zpool_status, NextMember)
      ]_vars

\* The tool whose probe fills a collection.
ProbeOf(collection) ==
    CASE collection \in {"partitions", "mounted_partitions"} -> "lsblk"
      [] collection = "zfs_pools" -> "zpool"
      [] collection = "btrfs_filesystems" -> "btrfs"
      [] collection = "mdadm_arrays" -> "cat"
      [] collection = "lvm_volumes" -> "pvs"

\* info has, for each probe that got its answer, what the analysis finds on
\* a host where every probe does, and nothing for the others.
FindingsOfTheOthers(info, unhindered) ==
    /\ ~info.raised
    /\ \A c \in Collections :
          info[c] = IF Works(ProbeOf(c)) THEN unhindered[c] ELSE <<>>

\* C15: whichever of the five probes fail (the tool is not installed, or the
\* query exits non-zero), the analysis returns without raising, with the
\* findings of every other probe and nothing from the failed ones.  (lsblk
\* and cat are installed on every host: the inventory has run lsblk.)
C15_ProbesAreIndependent ==
    [][clean_index' = clean_index + 1 =>
          FindingsOfTheOthers(last_disk_info',
                              _analyze_disk_configuration(
                                  Host(blockdevices, storage, NoFaults), NextMember))
      ]_vars

\* sdb analysed while lsblk and zpool fail: no partitions and no pool in the
\* analysis, although `zpool status` lists sdb2; the array and the
\* filesystem are found.
C15_Witness ==
    /\ clean_index > 0
    /\ selected_disks[clean_index].name = "sdb"
    /\ {"lsblk", "zpool"} \subseteq faults.failing
    /\ Mentions(storage.zpool_status, "sdb2") # {}
    /\ ~last_disk_info.raised
    /\ last_disk_info.partitions = <<>>
    /\ last_disk_info.zfs_pools = <<>>
    /\ "md0" \in Range(last_disk_info.mdadm_arrays)
    /\ last_disk_info.btrfs_filesystems # <<>>

-----------------------------------------------------------------------------
(* Claims about the teardown (SpecTeardown).                               *)

\* The commands of the log, by what they do.
IsUnmount(c) == c.argv[1] = "umount"
IsPartitionUnmount(c) == IsUnmount(c) /\ StartsWith(c.argv[Len(c.argv)], "/dev/")
IsFilesystemUnmount(c) == IsUnmount(c) /\ ~IsPartitionUnmount(c)
IsPoolDestroy(c) == c.argv[1] = "zpool" /\ c.argv[2] = "destroy"
IsArrayStop(c) == c.argv[1] = "mdadm" /\ c.argv[2] = "--stop"
IsWipe(c) ==
    \/ c.argv[1] = "zpool" /\ c.argv[2] = "labelclear"
    \/ c.argv[1] = "mdadm" /\ c.argv[2] = "--zero-superblock"
    \/ c.argv[1] \in {"wipefs", "dd", "sgdisk"}
IsDestroyOrWipe(c) ==
    IsPoolDestroy(c) \/ IsArrayStop(c) \/ c.argv[1] = "pvremove" \/ IsWipe(c)

\* C1 as stated: no unmount command of a disk, of a partition or of a
\* multi-device filesystem, plain or forced, is issued after a destroy or
\* wipe command (pool destroy, array stop, physical-volume removal, label
\* clear, signature wipe, zeroing, partition-table zap) of the same disk.
C1_UnmountsBeforeDestroyOrWipe ==
    \A j \in DOMAIN cmds :
        IsUnmount(cmds[j]) =>
            \A i \in 1..(j - 1) :
                cmds[i].disk = cmds[j].disk => ~IsDestroyOrWipe(cmds[i])

\* C1, amended: the partition unmounts of a disk are issued before every
\* destroy or wipe command of that disk; the unmounts of its multi-device
\* filesystems are issued before every array stop, physical-volume removal
\* and wipe command of that disk, and after the destroy of its pools.
C1_TeardownOrder ==
    \A j \in DOMAIN cmds :
        IsUnmount(cmds[j]) =>
            \A i \in 1..(j - 1) :
                (cmds[i].disk = cmds[j].disk /\ IsDestroyOrWipe(cmds[i]))
                    => (IsPoolDestroy(cmds[i]) /\ IsFilesystemUnmount(cmds[j]))

\* A disk with mounted partitions, a pool, a mounted multi-device filesystem
\* and an array has been torn down: partition unmounts, pool destroy,
\* filesystem unmount, array stop and wipe, in this order.
C1_Witness ==
    \E j \in DOMAIN cmds :
        /\ IsPoolDestroy(cmds[j])
        /\ \E i \in 1..(j - 1) :
              cmds[i].disk = cmds[j].disk /\ IsPartitionUnmount(cmds[i])
        /\ \E k \in (j + 1)..Len(cmds) :
              /\ cmds[k].disk = cmds[j].disk
              /\ IsFilesystemUnmount(cmds[k])
              /\ \E l \in (k + 1)..Len(cmds) :
                    /\ cmds[l].disk = cmds[j].disk
                    /\ IsArrayStop(cmds[l])
                    /\ \E m \in (l + 1)..Len(cmds) :
                          cmds[m].disk = cmds[j].disk /\ IsWipe(cmds[m])

\* The step of the teardown a command belongs to: 1 partition unmounts,
\* 2 pool export and destroy, 3 unmounts of multi-device filesystems, 4 array
\* stop, 5 volume groups, 6 the wipe with its rescan and settle.
StepOf(c) ==
    IF IsPartitionUnmount(c) THEN 1
    ELSE IF c.argv[1] = "zpool" /\ c.argv[2] \in {"export", "destroy"} THEN 2
    ELSE IF c.argv[1] = "findmnt" \/ IsFilesystemUnmount(c) THEN 3
    ELSE IF IsArrayStop(c) THEN 4
    ELSE IF c.argv[1] \in {"vgchange", "vgreduce", "pvremove"} THEN 5
    ELSE 6

\* C16: the commands of the teardown of one disk come in the order of the
\* steps, whichever of them have commands: partition unmounts, pool export
\* and destroy, filesystem unmounts, array stop, volume groups, wipe; for a
\* volume group the order is vgchange -an, vgreduce, pvremove -ff on the
\* disk's physical volume.
C16_StepsInFixedOrder ==
    /\ \A j \in DOMAIN cmds : \A i \in 1..(j - 1) :
          cmds[i].disk = cmds[j].disk => StepOf(cmds[i]) <= StepOf(cmds[j])
    /\ \A j \in DOMAIN cmds :
          /\ cmds[j].argv[1] = "vgreduce" =>
                /\ j > 1
                /\ cmds[j - 1].disk = cmds[j].disk
                /\ cmds[j - 1].argv = <<"vgchange", "-an", cmds[j].argv[2]>>
                /\ cmds[j].argv[3] = "/dev/" \o cmds[j].disk
          /\ cmds[j].argv[1] = "pvremove" =>
                /\ j > 1
                /\ cmds[j - 1].disk = cmds[j].disk
                /\ cmds[j - 1].argv[1] = "vgreduce"
                /\ cmds[j].argv = <<"pvremove", "-ff", cmds[j - 1].argv[3]>>

\* Two disks torn down: one through the steps 1, 2, 3, 4 and 6, the other
\* through the three commands of its volume group and then the wipe.
C16_Witness ==
    /\ \E j \in DOMAIN cmds :
          /\ StepOf(cmds[j]) = 3 /\ IsFilesystemUnmount(cmds[j])
          /\ \E i \in 1..(j - 1), h \in 1..(j - 1) :
                /\ h < i
                /\ cmds[h].disk = cmds[j].disk /\ StepOf(cmds[h]) = 1
                /\ cmds[i].disk = cmds[j].disk /\ StepOf(cmds[i]) = 2
          /\ \E k \in (j + 1)..Len(cmds), l \in (j + 1)..Len(cmds) :
                /\ k < l
                /\ cmds[k].disk = cmds[j].disk /\ StepOf(cmds[k]) = 4
                /\ cmds[l].disk = cmds[j].disk /\ cmds[l].argv[1] = "udevadm"
    /\ \E j \in DOMAIN cmds :
          /\ cmds[j].argv[1] = "vgchange"
          /\ j + 3 <= Len(cmds)
          /\ cmds[j + 1].argv[1] = "vgreduce"
          /\ cmds[j + 2].argv[1] = "pvremove"
          /\ cmds[j + 3].disk = cmds[j].disk /\ StepOf(cmds[j + 3]) = 6

\* C17: whichever destructive commands of the steps 1 to 6 fail, the
\* teardown of a disk does not abort: a wipe that has started reaches its
\* partprobe and udevadm settle, the batch goes on to the next disk, and
\* after a failing sgdisk --zap-all the first sector is zeroed with dd.
C17_FailuresDoNotAbort ==
    /\ pc # "failed"
    /\ \A j \in DOMAIN cmds :
          /\ cmds[j].argv = <<"which", "zpool">> /\ cmds[j].disk # "" =>
                \E k \in (j + 1)..Len(cmds), l \in (j + 1)..Len(cmds) :
                    /\ k < l
                    /\ cmds[k].argv = <<"partprobe", "/dev/" \o cmds[j].disk>>
                    /\ cmds[l].disk = cmds[j].disk
                    /\ cmds[l].argv = <<"udevadm", "settle">>
          /\ (/\ cmds[j].argv[1] = "sgdisk"
              /\ cmds[j].argv[2] = "--zap-all"
              /\ run_command(faults, cmds[j].argv) # "ok") =>
                /\ j < Len(cmds)
                /\ cmds[j + 1].argv = <<"dd", "if=/dev/zero", "of=" \o cmds[j].argv[3],
                                        "bs=512", "count=1", "conv=fsync">>

-----------------------------------------------------------------------------
(* Claims about the wizard and the cache planner (Spec).                   *)

SystemNames(disk_list) ==
    {disk_list[i].name : i \in {j \in DOMAIN disk_list : disk_list[j].is_system}}

\* The disks with is_system set, in the inventory the wizard took and in the
\* inventory of the host as it is.
SystemDiskNames ==
    SystemNames(disks) \cup SystemNames(detect_disks(blockdevices, mounts, findmnt_fail))

\* The disks a device path can stand for: the device itself, or the disk of
\* a partition in either naming scheme (sda1, nvme0n1p1), drawn as a branch
\* of the tree of lsblk or not.
PathDisks(arg) ==
    LET dev  == LastSegment(arg)
        leaf == IF StartsWith(dev, "|-") \/ StartsWith(dev, "'-")
                THEN SubSeq(dev, 3, Len(dev)) ELSE dev
        stem == RStrip(leaf, Digits)
    IN  {leaf, stem, IF EndsWith(stem, "p") THEN SubSeq(stem, 1, Len(stem) - 1) ELSE stem}

\* An argument of a command is the path of one of these disks or of a
\* partition of one (/dev/<name>..., also after of=).
NamesDiskIn(arg, names) ==
    /\ StartsWith(arg, "/dev/") \/ StartsWith(arg, "of=/dev/")
    /\ PathDisks(arg) \cap names # {}

\* The command was run for one of these disks or names one of them.
RunAgainst(c, names) ==
    \/ c.disk \in names
    \/ \E k \in DOMAIN c.argv : NamesDiskIn(c.argv[k], names)

CacheCandidates == cache_devices.nvme \o cache_devices.ssd \o cache_devices.other

\* None of the disks named is offered, selected or a cache candidate, and no
\* command was run against one of them.
NeverUsed(names) ==
    /\ \A d \in Range(available_disks) \cup Range(selected_disks) \cup Range(CacheCandidates) :
          ~d.is_system /\ d.name \notin names
    /\ \A i \in DOMAIN cmds : ~RunAgainst(cmds[i], names)

\* C2: a disk with is_system set is never among the disks offered for
\* selection, among the selected members or in a class of cache candidates
\* (nvme, ssd, other), and no command of the teardown, of the pool creation
\* or of the cache setup is run for a system disk or names one of its devices.
C2_SystemDisksNeverUsed == NeverUsed(SystemDiskNames)

\* The host has system disks, one of them an NVMe disk; members were torn
\* down, the pool was created and a cache or log device was attached.
C2_Witness ==
    /\ "nvme0n1" \in SystemDiskNames
    /\ \E i \in DOMAIN cmds :
          /\ IsWipe(cmds[i])
          /\ \E j \in (i + 1)..Len(cmds) :
                /\ cmds[j].argv[1] = "zpool" /\ cmds[j].argv[2] = "create"
                /\ \E k \in (j + 1)..Len(cmds) :
                      cmds[k].argv[1] = "zpool" /\ cmds[k].argv[2] = "add"

MemberNames == {selected_disks[i].name : i \in DOMAIN selected_disks}

\* The candidates are none of the disks named, and after the creation of the
\* pool no command is run against one of them.
KeptApart(names) ==
    /\ \A d \in Range(CacheCandidates) : d.name \notin names
    /\ \A j \in DOMAIN cmds :
          (cmds[j].argv[1] = "zpool" /\ cmds[j].argv[2] = "create")
              => \A k \in (j + 1)..Len(cmds) : ~RunAgainst(cmds[k], names)

\* C7: the cache candidates of every class and the members of the pool are
\* disjoint, and once the pool is created no command (unmount, wipe,
\* partitioning, zpool add) is run for a member or names a device of one.
C7_CacheDisjointFromPool == KeptApart(MemberNames)

\* A pool with a member of a class that is offered as cache (NVMe or SSD)
\* was created, and another disk was prepared and attached to it.
C7_Witness ==
    /\ \E d \in Range(selected_disks) : StartsWith(d.name, "nvme") \/ d.name \in storage.ssd
    /\ \E j \in DOMAIN cmds :
          /\ cmds[j].argv[1] = "zpool" /\ cmds[j].argv[2] = "create"
          /\ \E k \in (j + 1)..Len(cmds) :
                /\ cmds[k].argv[1] = "wipefs"
                /\ \E l \in (k + 1)..Len(cmds) :
                      cmds[l].argv[1] = "zpool" /\ cmds[l].argv[2] = "add"

-----------------------------------------------------------------------------
(* Claims about the inventory and the protection classifier (SpecScan).    *)

\* C3: the disk whose partition is mounted at "/" is in the inventory with
\* is_system = TRUE, for every partition naming scheme and every
\* exclude_disks configuration.
C3_RootDiskIsSystem ==
    pc = "scanned" =>
        \A dev \in DevicesMountedAt({"/"}) :
            /\ Returned(dev.name) # {}
            /\ \A d \in Returned(dev.name) : d.is_system

\* The root filesystem is on nvme1n1p2, whose name _get_system_disks turns
\* into "nvme1n1p"; the default exclusion patterns are configured.
C3_Witness ==
    /\ pc = "scanned"
    /\ exclude_disks = DefaultExcludeDisks
    /\ "nvme1n1" \notin system_disks
    /\ \E d \in Returned("nvme1n1") : d.is_system /\ "/" \in Range(d.mount_points)

\* The boot-media family and the primary NVMe disk.
ProtectedFamily == {"mmcblk0", "mmcblk0boot0", "mmcblk0boot1", "mmcblk0rpmb", "nvme0n1"}

\* C4: when every findmnt call fails the protected set still holds the
\* static boot-media family and nvme0n1, and every scanned disk of that
\* family is a system disk.
C4_FailSafeFallback ==
    (pc = "scanned" /\ findmnt_fail = FindmntKinds) =>
        /\ ProtectedFamily \subseteq system_disks
        /\ \A k \in DOMAIN disks :
              disks[k].name \in ProtectedFamily => disks[k].is_system

\* All probes failed, the root filesystem is elsewhere, and mmcblk0,
\* mmcblk0boot0 and nvme0n1 are in the inventory as system disks.
C4_Witness ==
    /\ pc = "scanned"
    /\ findmnt_fail = FindmntKinds
    /\ DevicesMountedAt({"/"}) = {blockdevices[1]}
    /\ \A n \in {"mmcblk0", "mmcblk0boot0", "nvme0n1"} :
          \E d \in Returned(n) : d.is_system

\* The critical mount points named by the claim: root, boot, system
\* binaries, library, home.
CriticalMountPoints == {"/", "/boot", "/usr", "/bin", "/sbin", "/lib", "/home"}

\* C5: a scanned disk with a partition mounted at a critical mount point
\* is a system disk, whatever the partition naming scheme (stated for the
\* hosts on which every findmnt probe works).
C5_CriticalMountIsSystem ==
    (pc = "scanned" /\ findmnt_fail = {}) =>
        \A dev \in DevicesMountedAt(CriticalMountPoints) :
            \A d \in Returned(dev.name) : d.is_system

\* fnmatch of a name against one exclude_disks pattern ("loop*" or "mmcblk0")
MatchesPattern(name, pattern) ==
    IF EndsWith(pattern, "*")
    THEN StartsWith(name, SubSeq(pattern, 1, Len(pattern) - 1))
    ELSE name = pattern

\* C6: the inventory holds only devices of type "disk", and no device whose
\* name matches a configured exclusion pattern.
C6_ExcludedNeverReturned ==
    pc = "scanned" =>
        \A k \in DOMAIN disks :
            /\ \E i \in DOMAIN blockdevices :
                  blockdevices[i].name = disks[k].name /\ blockdevices[i].type = "disk"
            /\ \A pattern \in exclude_disks : ~MatchesPattern(disks[k].name, pattern)

-----------------------------------------------------------------------------
(* Claims about the capacity model (SpecCapacity).                         *)

StripeTypes == {"stripe", "btrfs_raid0"}
MirrorTypes == {"mirror", "btrfs_raid1"}

\* minDisks of a topology
MinDisks(rtype) ==
    CASE rtype = "stripe" -> 1
      [] rtype \in {"mirror", "btrfs_raid0", "btrfs_raid1"} -> 2
      [] rtype \in {"raidz1", "btrfs_raid5"} -> 3
      [] rtype \in {"raidz2", "btrfs_raid6", "btrfs_raid10"} -> 4
      [] rtype = "raidz3" -> 5

\* the parity count k of a parity topology
ParityOf(rtype) ==
    CASE rtype \in {"raidz1", "btrfs_raid5"} -> 1
      [] rtype \in {"raidz2", "btrfs_raid6"} -> 2
      [] rtype = "raidz3" -> 3

\* the reference value of the usable capacity
ReferenceUsable(rtype, n, min, total) ==
    IF rtype \in StripeTypes THEN total
    ELSE IF rtype \in MirrorTypes \cup {"btrfs_raid10"} THEN min * (n \div 2)
    ELSE min * (n - ParityOf(rtype))

WithSize(i, size) ==
    [selected_disks EXCEPT ![i] = BlankDisk(selected_disks[i].name, size)]

\* C9: with n >= minDisks the usable capacity is the reference value (total
\* for stripe, min * floor(n/2) for mirror and raid10, min * (n - k) for
\* parity-k); it never exceeds the raw total, and outside stripe it does not
\* change when a disk changes size while min(size) and n stay the same.
C9_UsableMatchesReference ==
    (pc = "computed" /\ Len(selected_disks) >= MinDisks(raid_type)) =>
        LET n     == Len(selected_disks)
            min   == Min(Range(SizesOf(selected_disks)))
            total == Sum(SizesOf(selected_disks))
        IN  /\ capacity_info.total_raw = total
            /\ capacity_info.usable_size = ReferenceUsable(raid_type, n, min, total)
            /\ capacity_info.usable_size <= capacity_info.total_raw
            /\ raid_type \notin StripeTypes =>
                 \A i \in 1..n, size \in DiskSizes :
                    Min(Range(SizesOf(WithSize(i, size)))) = min =>
                        _calculate_raid_capacity(raid_type, WithSize(i, size)).usable_size
                            = capacity_info.usable_size

\* Four equal disks under parity-2 give twice the disk size (50%), and three
\* disks {1, 1, 3} KiB under raidz1 are bounded by the smallest.
C9_Witness ==
    /\ pc = "computed"
    /\ raid_type = "raidz2"
    /\ SizesOf(selected_disks) = <<2048, 2048, 2048, 2048>>
    /\ capacity_info.usable_size = 4096
    /\ capacity_info.usable = "4.0 KB"
    /\ capacity_info.efficiency = "50.0%"

\* the number a percentage string stands for, as num / den
PercentValue(text) ==
    IF EndsWith(text, "%") THEN ParseFloat(SubSeq(text, 1, Len(text) - 1))
    ELSE [ok |-> FALSE, num |-> 0, den |-> 1]

Abs(x) == IF x < 0 THEN 0 - x ELSE x

\* C10: for mirror/raid1 and raid10 the reported efficiency is
\* floor(n/2)/n, for odd n too (to the one decimal of a percent the report
\* prints).
C10_MirrorEfficiency ==
    (/\ pc = "computed"
     /\ raid_type \in MirrorTypes \cup {"btrfs_raid10"}
     /\ Len(selected_disks) >= MinDisks(raid_type)) =>
        LET n == Len(selected_disks)
            e == PercentValue(capacity_info.efficiency)
        IN  /\ e.ok
            /\ 20 * Abs(e.num * n - 100 * (n \div 2) * e.den) <= e.den * n

\* C11: for mirror/raid1 the reported efficiency is usable / total raw, on
\* disks of unequal sizes too (to the one decimal of a percent the report
\* prints): {1, 1, 3} KiB give usable 1 KiB of 5 KiB, 20%.
C11_MirrorEfficiencyIsUsableOverTotal ==
    (/\ pc = "computed"
     /\ raid_type \in MirrorTypes
     /\ Len(selected_disks) >= MinDisks(raid_type)) =>
        LET total == Sum(SizesOf(selected_disks))
            e     == PercentValue(capacity_info.efficiency)
        IN  /\ e.ok
            /\ 20 * Abs(e.num * total - 100 * capacity_info.usable_size * e.den)
                  <= e.den * total

-----------------------------------------------------------------------------
(* Claims about the cache menu.                                            *)

\* C22: in partitioned cache mode no command at all (unmount, wipefs,
\* sgdisk, zpool add) is run for a candidate of less than 4 GiB or names
\* one of its devices: the request is turned down first.
C22_TooSmallIsLeftAlone ==
    \A device \in OfferedForCache :
        SizeKiB(device) < 4 * KiBPerGiB
            => \A j \in DOMAIN cmds : ~RunAgainst(cmds[j], {device.name})

\* The menu was left with a candidate of less than 4 GiB on offer that is
\* in use, after a request for it or for the other candidate.
C22_Witness ==
    /\ pc = "automount"
    /\ \E device \in OfferedForCache :
          /\ SizeKiB(device) < 4 * KiBPerGiB
          /\ device.mount_points # <<>>

\* The commands of _prepare_cache_device and of the partitioning that erase
\* signatures or change the partition table.
ErasesCacheDevice(c) ==
    /\ c.disk \notin MemberNames
    /\ c.argv[1] \in {"wipefs", "sgdisk"}

\* C23: wipefs or sgdisk is run on a cache device only after a confirm
\* prompt that names the device was answered with yes, whatever the device
\* holds and however it was picked.
C23_ErasedOnlyWhenConfirmed ==
    \A j \in DOMAIN cmds : ErasesCacheDevice(cmds[j]) => cmds[j].disk \in confirmed

-----------------------------------------------------------------------------
(* Claims about the failures of the teardown (SpecTeardown).               *)

\* The unmounts of the teardown: of the entries of mounted_partitions, which
\* name a device, and of the mount points of btrfs, by the same sequence.
PlainUnmount(c) == c.argv[1] = "umount" /\ Len(c.argv) = 2

ForcedUnmount(c) == c.argv[1] = "umount" /\ Len(c.argv) = 3 /\ c.argv[2] = "-f"

OfMountedPartition(c) == StartsWith(c.argv[Len(c.argv)], "/dev/")

\* C24: a mounted partition is unmounted plainly first; the forced unmount
\* of the same partition is the next command exactly when the plain one
\* exited non-zero, no forced unmount is issued otherwise or twice, and
\* after a forced unmount that fails the teardown of the disk goes on with
\* its next command.
C24_ForcedUnmountOnlyAfterFailure ==
    \A j \in DOMAIN cmds :
       /\ PlainUnmount(cmds[j]) =>
             (cmds[j].status # "ok"
                <=> /\ j < Len(cmds)
                    /\ cmds[j + 1] = [disk   |-> cmds[j].disk,
                                      argv   |-> <<"umount", "-f", cmds[j].argv[2]>>,
                                      status |-> cmds[j + 1].status])
       /\ ForcedUnmount(cmds[j]) =>
             /\ j > 1
             /\ cmds[j - 1].argv = <<"umount", cmds[j].argv[3]>>
             /\ cmds[j - 1].disk = cmds[j].disk
             /\ cmds[j - 1].status = "fail"
             /\ cmds[j].status # "ok" =>
                   /\ j < Len(cmds)
                   /\ cmds[j + 1].disk = cmds[j].disk
                   /\ ~ForcedUnmount(cmds[j + 1])

C24_Witness ==
    \E j \in DOMAIN cmds :
       /\ ForcedUnmount(cmds[j]) /\ OfMountedPartition(cmds[j])
       /\ cmds[j].status = "fail"
       /\ cmds[j - 1].argv = <<"umount", cmds[j].argv[3]>>
       /\ cmds[j + 1].disk = cmds[j].disk

FirstPoolDestroy(j) ==
    /\ IsPoolDestroy(cmds[j])
    /\ ~(j > 1 /\ cmds[j - 1].argv[1] \in {"zfs", "umount"})

\* C25: a pool is exported and then destroyed with -f; when that destroy
\* exits non-zero the next two commands are a forced unmount of the pool and
\* a second destroy with -f.
C25_FailedDestroyIsRetried ==
    \A j \in DOMAIN cmds :
       FirstPoolDestroy(j) =>
          /\ j > 1
          /\ cmds[j - 1].argv = <<"zpool", "export", cmds[j].argv[Len(cmds[j].argv)]>>
          /\ cmds[j].status # "ok" =>
                /\ j + 2 <= Len(cmds)
                /\ cmds[j + 1].argv[1] \in {"zfs", "umount"}
                /\ "-f" \in Range(cmds[j + 1].argv)
                /\ cmds[j + 2].argv = cmds[j].argv

-----------------------------------------------------------------------------
(* Claims about the cache planner (SpecCache).                             *)

\* The disks of the inventory that are neither system disks nor members.
EligibleForCache ==
    {d \in Range(detect_disks(blockdevices, mounts, findmnt_fail)) :
        ~d.is_system /\ d.name \notin MemberNames}

\* The query of the rotational flag of a disk exits with 0 and prints 0.
RotationalFlagReadsZero(d) ==
    /\ run_command(faults, <<"lsblk", "-dpno", "ROTA", "/dev/" \o d.name>>) = "ok"
    /\ d.name \in storage.ssd

ClassOf(d) ==
    IF StartsWith(d.name, "nvme") THEN "nvme"
    ELSE IF RotationalFlagReadsZero(d) THEN "ssd"
    ELSE "other"

\* C26: once the candidates are detected, a disk that is neither a member
\* nor a system disk is in the class nvme when its name starts with nvme,
\* else in ssd when its rotational flag reads 0, else (also when the query
\* fails) in other; a disk of the class other is never what the selection
\* returns, and no command of the cache setup is run for it or names it.
C26_RotationalNeverCache ==
    pc # "cache" =>
       /\ \A d \in Range(cache_devices.nvme) : ClassOf(d) = "nvme"
       /\ \A d \in Range(cache_devices.ssd) : ClassOf(d) = "ssd"
       /\ \A d \in Range(cache_devices.other) : ClassOf(d) = "other"
       /\ pc = "cache_menu" => Range(CacheCandidates) = EligibleForCache
       /\ \A d \in EligibleForCache :
             ClassOf(d) = "other" =>
                /\ d \notin _select_cache_device(cache_devices)
                /\ \A j \in DOMAIN cmds : ~RunAgainst(cmds[j], {d.name})

\* sdf, whose flag reads 0 but cannot be queried, and sdg are in the class
\* other while the NVMe candidate was wiped and attached.
C26_Witness ==
    /\ pc = "automount"
    /\ {"sdf", "sdg"} \subseteq {d.name : d \in Range(cache_devices.other)}
    /\ "sdf" \in storage.ssd
    /\ \E j \in DOMAIN cmds :
          /\ cmds[j].argv[1] = "wipefs"
          /\ \E k \in (j + 1)..Len(cmds) :
                cmds[k].argv[1] = "zpool" /\ cmds[k].argv[2] = "add"

AddsToPool(c, role) ==
    c.argv[1] = "zpool" /\ c.argv[2] = "add" /\ role \in Range(c.argv)

\* C27: the handler of the two separate devices issues nothing when the
\* NVMe and SSD candidates are fewer than two, and the device it adds as
\* cache and the device it adds as log are different disks.
C27_SeparateDevicesAreTwoDisks ==
    [][SetupSeparateCacheDevices =>
          /\ Len(cache_devices.nvme) + Len(cache_devices.ssd) < 2 => cmds' = cmds
          /\ \A c \in IssuedInStep, l \in IssuedInStep :
                (AddsToPool(c, "cache") /\ AddsToPool(l, "log")) =>
                   /\ c.disk # l.disk
                   /\ c.argv[Len(c.argv)] # l.argv[Len(l.argv)]
                   /\ {c.disk, l.disk} \cap MemberNames = {}]_vars

\* Two whole disks were added to the pool, one as cache and one as log.
C27_Witness ==
    \E j \in DOMAIN cmds, k \in DOMAIN cmds :
       /\ AddsToPool(cmds[j], "cache") /\ AddsToPool(cmds[k], "log")
       /\ cmds[j].argv[Len(cmds[j].argv)] = "/dev/" \o cmds[j].disk
       /\ cmds[k].argv[Len(cmds[k].argv)] = "/dev/" \o cmds[k].disk
       /\ cmds[j].disk # cmds[k].disk

-----------------------------------------------------------------------------
(* A claim about the sizes of the inventory (SpecScan).                    *)

\* The sizes lsblk can report that stand for no capacity: none, zero, and
\* text that is no size.
SizesWithoutCapacity == {"", "0B", "N/A"}

\* C28: every disk the scan returns has a size above 0, and a block device
\* whose size is empty, zero or no size at all is not in the inventory.
C28_NoDiskWithoutSize ==
    pc = "scanned" =>
       /\ \A k \in DOMAIN disks : disks[k].size > 0
       /\ \A i \in DOMAIN blockdevices :
             blockdevices[i].size \in SizesWithoutCapacity =>
                Returned(blockdevices[i].name) = {}

\* The card reader sdc reports no size that can be parsed; nothing excludes
\* it by name, and the scan returned the other disks.
C28_Witness ==
    /\ pc = "scanned"
    /\ \E i \in DOMAIN blockdevices :
          /\ blockdevices[i].name = "sdc"
          /\ blockdevices[i].type = "disk"
          /\ blockdevices[i].size = "N/A"
    /\ exclude_disks = {}
    /\ Returned("sdb") # {}
    /\ Returned("sdc") = {}

-----------------------------------------------------------------------------
(* A claim about the final confirmation of the wizard (Spec).              *)

\* The wizard has not been told to proceed: it is at one of its steps 1 to
\* 5, the last of which is the final confirmation.
BeforeConfirmation == pc \in {"wizard", "filesystem", "select", "raid_type", "confirm"}

\* C29: up to and including the answer to the final confirmation no
\* command is issued: the log is empty at every step before it, and the
\* steps taken from there (a selection, cancelling it, going back from the
\* level, yes or no to the confirmation) leave it empty.
C29_NothingIssuedBeforeConfirmation ==
    [][BeforeConfirmation => (cmds = <<>> /\ cmds' = <<>>)]_vars

\* The final confirmation of a selection of disks with data was answered
\* with no, and the wizard returned.
C29_Witness ==
    /\ pc = "done"
    /\ raid_type # "none"
    /\ DisksWithData(selected_disks) # <<>>
    /\ cmds = <<>>

-----------------------------------------------------------------------------
(* A claim about the end of the disk in the full wipe (SpecWipe).          *)

\* dd over the end of a disk: the one with seek=
IsTailWipe(c) ==
    c.argv[1] = "dd" /\ \E k \in DOMAIN c.argv : StartsWith(c.argv[k], "seek=")

\* bs=1M seek=<n> count=100: n
TailSeek(c) ==
    ToInt(AfterFirst(c.argv[CHOOSE k \in DOMAIN c.argv : StartsWith(c.argv[k], "seek=")],
                     "seek="))

\* The size in bytes of a disk of the host.
DiskBytes(name) ==
    _parse_size(blockdevices[CHOOSE i \in DOMAIN blockdevices :
                                blockdevices[i].name = name].size)

\* C30: the end of a disk is zeroed only when the disk is larger than
\* 100 MiB; the 100 blocks of 1 MiB start at floor(size / 1 MiB) - 100,
\* which is not negative, end inside the disk and leave less than 1 MiB
\* after them.
C30_TailWipeInsideDisk ==
    \A j \in DOMAIN cmds :
       IsTailWipe(cmds[j]) =>
          LET size == DiskBytes(cmds[j].disk)
              seek == TailSeek(cmds[j])
          IN  /\ "bs=1M" \in Range(cmds[j].argv) /\ "count=100" \in Range(cmds[j].argv)
              /\ size > 100 * MiB
              /\ seek = (size \div MiB) - 100
              /\ seek >= 0
              /\ (seek + 100) * MiB <= size
              /\ size - (seek + 100) * MiB < MiB

\* The end of sdb, a little over 100 MiB and no whole number of MiB, was
\* zeroed from block 0; sdc, of 100 MiB, was wiped without it.
C30_Witness ==
    /\ \E j \in DOMAIN cmds :
          /\ IsTailWipe(cmds[j]) /\ cmds[j].disk = "sdb"
          /\ TailSeek(cmds[j]) = 0
          /\ DiskBytes("sdb") % MiB # 0
    /\ \E j \in DOMAIN cmds : cmds[j].disk = "sdc" /\ cmds[j].argv[1] = "wipefs"
    /\ \A j \in DOMAIN cmds : IsTailWipe(cmds[j]) => cmds[j].disk # "sdc"
====
